---------------------------- MODULE Spec2Model ----------------------------
(***************************************************************************)
(* A model of smb-zfs: the ZFS adapter (zfs.py), the OS adapter            *)
(* (system.py), the State Store (state_manager.py) and the reconciliation  *)
(* engine (smb_zfs.py).                                                    *)
(*                                                                         *)
(* A dataset is the sequence of its path components, <<"tank", "homes",    *)
(* "alice">> for tank/homes/alice, so that split('/') and '/'.join are     *)
(* Tail, SubSeq and \o.  A command that the code runs with check=True may  *)
(* fail and then raises SmbZfsError (System._run); a command run with      *)
(* check=False may fail silently.  Which commands fail is chosen by the    *)
(* environment.                                                            *)
(***************************************************************************)
EXTENDS Naturals, Sequences, FiniteSets, TLC

VARIABLES
    datasets,     \* ZFS: existing dataset -> [data, quota]
    snapshots,    \* ZFS: existing snapshot <<dataset, name>> -> guid
    mv,           \* the locals and the position of a running Zfs.move_dataset
    data,         \* StateManager.data of the running manager
    file,         \* the content of the state file, "absent" when there is none
    os_users,     \* /etc/passwd: user -> [shell]
    os_groups,    \* /etc/group: group -> the set of its members
    samba_users,  \* the Samba password database: user -> [enabled]
    conf,         \* smb.conf: [present, stanzas], and the Avahi service file
    last,         \* the last engine call: operation, arguments, outcome, state before
    calls,        \* the number of engine calls made
    faulty        \* the number of engine calls into which a fault was injected

zfs_vars == <<datasets, snapshots>>
engine_vars == <<data, file, os_users, os_groups, samba_users, conf, last, calls, faulty>>
vars == <<datasets, snapshots, mv, data, file, os_users, os_groups, samba_users,
          conf, last, calls, faulty>>

-----------------------------------------------------------------------------
(* Bounds *)

\* The largest value of the `used` and `available` properties read by a move.
MaxBytes == 2

\* The number of engine calls of a run.
MaxCalls == 4

\* The number of engine calls of a run into which the environment injects faults.
MaxFaultyCalls == 1

-----------------------------------------------------------------------------
(* Generic helpers *)

EmptyFn == [x \in {} |-> x]

Put(f, k, v) == [x \in (DOMAIN f) \cup {k} |-> IF x = k THEN v ELSE f[x]]

Drop(f, K) == [x \in (DOMAIN f) \ K |-> f[x]]

IsPrefix(p, q) == Len(p) <= Len(q) /\ SubSeq(q, 1, Len(p)) = p

Prefixes(p) == {SubSeq(p, 1, n) : n \in 1..Len(p)}

-----------------------------------------------------------------------------
(* The ZFS adapter.  z is the ZFS state [ds |-> datasets, sn |-> snapshots]; *)
(* a command returns [z |-> the new state, err |-> "none" or the error].    *)

Pools == {"tank", "archive"}

NewDataset == [data |-> "empty", quota |-> "none"]

ZfsOk(z) == [z |-> z, err |-> "none"]

ZfsFail(z) == [z |-> z, err |-> "SmbZfsError"]

dataset_exists(z, dataset) == dataset \in DOMAIN z.ds

snapshot_exists(z, snapshot) == snapshot \in DOMAIN z.sn

\* zfs create -p: creates the dataset and its missing parents; the pool must exist.
create_dataset(z, dataset, ok) ==
    IF ~ok \/ ~dataset_exists(z, SubSeq(dataset, 1, 1))
    THEN ZfsFail(z)
    ELSE ZfsOk([z EXCEPT !.ds =
            [d \in (DOMAIN z.ds) \cup Prefixes(dataset) |->
                IF d \in DOMAIN z.ds THEN z.ds[d] ELSE NewDataset]])

\* zfs destroy -r: the dataset, its descendants and all their snapshots.
zfs_destroy_r(z, dataset, ok) ==
    IF ~ok \/ ~dataset_exists(z, dataset)
    THEN ZfsFail(z)
    ELSE ZfsOk([ds |-> Drop(z.ds, {d \in DOMAIN z.ds : IsPrefix(dataset, d)}),
                sn |-> Drop(z.sn, {s \in DOMAIN z.sn : IsPrefix(dataset, s[1])})])

destroy_dataset_Unchecked(z, dataset, ok) == zfs_destroy_r(z, dataset, ok)

\* Zfs.destroy_dataset: nothing is run for a dataset that is not there.
destroy_dataset(z, dataset, ok) ==
    IF dataset_exists(z, dataset) THEN zfs_destroy_r(z, dataset, ok) ELSE ZfsOk(z)

\* zfs destroy of one snapshot.
zfs_destroy_snapshot(z, snapshot, ok) ==
    IF ~ok \/ ~snapshot_exists(z, snapshot)
    THEN ZfsFail(z)
    ELSE ZfsOk([z EXCEPT !.sn = Drop(z.sn, {snapshot})])

\* zfs snapshot: fails when the snapshot exists already.
zfs_snapshot(z, snapshot, guid, ok) ==
    IF ~ok \/ ~dataset_exists(z, snapshot[1]) \/ snapshot_exists(z, snapshot)
    THEN ZfsFail(z)
    ELSE ZfsOk([z EXCEPT !.sn = Put(z.sn, snapshot, guid)])

\* zfs send src | zfs recv -F dest: on success dest holds the data of the
\* source and the snapshot, with the guid the receive gave it; -F overwrites an
\* existing dest.  A failed pipe may leave a partial dest behind.
zfs_send_recv(z, source_snapshot, dest_dataset, dest_guid, ok, leaves_partial) ==
    LET dest_snapshot == <<dest_dataset, source_snapshot[2]>>
        parent == SubSeq(dest_dataset, 1, Len(dest_dataset) - 1)
    IN  IF ~snapshot_exists(z, source_snapshot) \/ ~dataset_exists(z, parent)
        THEN ZfsFail(z)
        ELSE IF ~ok
        THEN IF leaves_partial
             THEN ZfsFail([z EXCEPT !.ds = Put(z.ds, dest_dataset,
                                [data |-> "partial", quota |-> "none"])])
             ELSE ZfsFail(z)
        ELSE ZfsOk([ds |-> Put(z.ds, dest_dataset, z.ds[source_snapshot[1]]),
                    sn |-> Put(z.sn, dest_snapshot, dest_guid)])

\* _get_zfs_property(target, 'guid'): "0" when the command fails.
get_guid(z, snapshot, ok) ==
    IF ok /\ snapshot_exists(z, snapshot) THEN z.sn[snapshot] ELSE "0"


-----------------------------------------------------------------------------
(* Zfs.move_dataset, one step per command.  m holds the locals of the call,  *)
(* its position pc, the exception in flight inside the try block (exc), the  *)
(* step that raised it (failed) and, once pc = "done", how the call ended    *)
(* (result: "ok", or the error raised to the caller).  A step returns        *)
(* [m |-> the locals, z |-> the ZFS state].                                  *)

Guids == {"g1", "g2"}

SnapshotNames == {"moving_1", "moving_2"}

NoZfs == [ds |-> EmptyFn, sn |-> EmptyFn]

MvIdle ==
    [pc |-> "idle", dataset_path |-> <<>>, new_pool |-> "", snapshot_name |-> "",
     required_bytes |-> 0, available_bytes |-> 0,
     source_guid |-> "unread", dest_guid |-> "unread",
     exc |-> "none", failed |-> "none", cleanup_failed |-> FALSE,
     result |-> "none", pre |-> NoZfs]

base_dataset_name(m) == Tail(m.dataset_path)

source_snapshot(m) == <<m.dataset_path, m.snapshot_name>>

dest_dataset(m) == <<m.new_pool>> \o base_dataset_name(m)

dest_snapshot(m) == <<dest_dataset(m), m.snapshot_name>>

MvRaise(m, z, error) == [m |-> [m EXCEPT !.pc = "done", !.result = error], z |-> z]

MvThrow(m, z, error, step) ==
    [m |-> [m EXCEPT !.pc = "except", !.exc = error, !.failed = step], z |-> z]

MvGoto(m, z, pc) == [m |-> [m EXCEPT !.pc = pc], z |-> z]

\* The call: snapshot_name is moving_<int(time.time())>.
move_begin(z, dataset_path, new_pool, snapshot_name) ==
    [MvIdle EXCEPT !.pc = "validate", !.dataset_path = dataset_path,
                   !.new_pool = new_pool, !.snapshot_name = snapshot_name,
                   !.pre = z]

\* The comparison of line 110 the wrong way round.
NotEnoughSpace_Swapped(required_bytes, available_bytes) ==
    available_bytes > required_bytes

NotEnoughSpace(required_bytes, available_bytes) == required_bytes > available_bytes

\* Lines 100-114: the source and the pool exist, and the source fits.
move_validate(m, z, used, available) ==
    IF ~dataset_exists(z, m.dataset_path) THEN MvRaise(m, z, "SourceMissing")
    ELSE IF ~dataset_exists(z, <<m.new_pool>>) THEN MvRaise(m, z, "PoolMissing")
    ELSE LET n == [m EXCEPT !.required_bytes = used, !.available_bytes = available]
         IN  IF NotEnoughSpace(used, available)
             THEN MvRaise(n, z, "NotEnoughSpace")
             ELSE MvGoto(n, z, "parents")

\* Lines 116-120: zfs create -p of every ancestor of the destination, in
\* order; the fail_at-th create fails (0: none does).
RECURSIVE create_parents(_, _, _, _)
create_parents(z, new_path, rest, fail_at) ==
    IF rest = <<>> THEN ZfsOk(z)
    ELSE LET r == create_dataset(z, new_path \o <<Head(rest)>>, fail_at # 1)
         IN  IF r.err # "none" THEN r
             ELSE create_parents(r.z, new_path \o <<Head(rest)>>, Tail(rest),
                                 IF fail_at = 0 THEN 0 ELSE fail_at - 1)

move_create_parents(m, z, fail_at) ==
    LET base == base_dataset_name(m)
        r == create_parents(z, <<m.new_pool>>, SubSeq(base, 1, Len(base) - 1), fail_at)
    IN  IF r.err # "none" THEN MvRaise(m, r.z, r.err) ELSE MvGoto(m, r.z, "check_dest")

\* Lines 128-130 left out.
DestinationExists_Unchecked(z, dataset) == FALSE

DestinationExists(z, dataset) == dataset_exists(z, dataset)

\* Lines 128-130.
move_check_dest(m, z) ==
    IF DestinationExists(z, dest_dataset(m))
    THEN MvRaise(m, z, "DestinationExists")
    ELSE MvGoto(m, z, "snapshot")

\* Line 133.
move_snapshot(m, z, ok) ==
    LET r == zfs_snapshot(z, source_snapshot(m), "g1", ok)
    IN  IF r.err # "none" THEN MvThrow(m, r.z, r.err, "snapshot")
        ELSE MvGoto(m, r.z, "send_recv")

\* Lines 134-137.
move_send_recv(m, z, guid, ok, leaves_partial) ==
    LET r == zfs_send_recv(z, source_snapshot(m), dest_dataset(m), guid, ok,
                           leaves_partial)
    IN  IF r.err # "none" THEN MvThrow(m, r.z, r.err, "send_recv")
        ELSE MvGoto(m, r.z, "read_guids")

\* Lines 139-140.
move_read_guids(m, z, ok_source, ok_dest) ==
    [m |-> [m EXCEPT !.pc = "verify",
                     !.source_guid = get_guid(z, source_snapshot(m), ok_source),
                     !.dest_guid = get_guid(z, dest_snapshot(m), ok_dest)],
     z |-> z]

\* Line 142 without the comparison of the two guids.
VerificationFailed_NoCompare(source_guid, dest_guid) ==
    source_guid = "0" \/ dest_guid = "0"

VerificationFailed(source_guid, dest_guid) ==
    source_guid = "0" \/ dest_guid = "0" \/ source_guid # dest_guid

\* Lines 142-146.
move_verify(m, z) ==
    IF VerificationFailed(m.source_guid, m.dest_guid)
    THEN MvThrow(m, z, "ZfsCmdError", "verify")
    ELSE MvGoto(m, z, "destroy_source")

\* Line 148.
move_destroy_source(m, z, ok) ==
    LET r == zfs_destroy_r(z, m.dataset_path, ok)
    IN  IF r.err # "none" THEN MvThrow(m, r.z, r.err, "destroy_source")
        ELSE MvGoto(m, r.z, "destroy_dest_snapshot")

\* Line 149; the try block ends and the call returns.
move_destroy_dest_snapshot(m, z, ok) ==
    LET r == zfs_destroy_snapshot(z, dest_snapshot(m), ok)
    IN  IF r.err # "none" THEN MvThrow(m, r.z, r.err, "destroy_dest_snapshot")
        ELSE MvRaise(m, r.z, "ok")

\* Line 151 as `except Exception`.
Catches_Any(exc) == exc # "none"

\* Line 151: except (subprocess.CalledProcessError, ZfsCmdError).  System._run
\* turns a CalledProcessError into an SmbZfsError, the base class of errors.py,
\* which is neither of the two.
Catches(exc) == exc \in {"CalledProcessError", "ZfsCmdError"}

\* Lines 151-161: the handler destroys the destination and the source
\* snapshot (check=False: a failure is ignored) and raises the move-failed
\* error; an exception it does not catch goes to the caller as it is.
move_except(m, z, ok_dest, ok_snapshot) ==
    IF ~Catches(m.exc) THEN MvRaise(m, z, m.exc)
    ELSE LET r1 == IF dataset_exists(z, dest_dataset(m))
                   THEN zfs_destroy_r(z, dest_dataset(m), ok_dest) ELSE ZfsOk(z)
             r2 == IF snapshot_exists(r1.z, source_snapshot(m))
                   THEN zfs_destroy_snapshot(r1.z, source_snapshot(m), ok_snapshot)
                   ELSE ZfsOk(r1.z)
         IN  MvRaise([m EXCEPT !.cleanup_failed = r1.err # "none" \/ r2.err # "none"],
                     r2.z, "MoveFailed")

-----------------------------------------------------------------------------
(* The world the engine acts on, and the execution of one engine call.      *)
(* A call is run on a context c: the world w, the exception in flight err,  *)
(* the number n of fallible steps run so far, and the faults the            *)
(* environment injects into this call: the fault-th fallible step of the    *)
(* body fails (0: none), the rfault-th rollback action fails (0: none), and *)
(* with sfault the write of the state file that restores it fails.  A step  *)
(* is skipped when an exception is in flight.                               *)

Z == [ds |-> datasets, sn |-> snapshots]

W == [data |-> data, file |-> file, os_users |-> os_users, os_groups |-> os_groups,
      samba_users |-> samba_users, conf |-> conf, zfs |-> Z]

Reverse(s) == [i \in 1..Len(s) |-> s[Len(s) + 1 - i]]

Range(s) == {s[i] : i \in 1..Len(s)}

Begin(w, fault, rfault, sfault) ==
    [w |-> w, err |-> "none", n |-> 0, fault |-> fault, rfault |-> rfault,
     sfault |-> sfault, hit |-> FALSE, rb |-> <<>>, rolled |-> <<>>,
     rb_failed |-> {}, trigger |-> "none", restore |-> "none", tr |-> <<>>]

Fails(c) == c.fault = c.n + 1

Tick(c) == [c EXCEPT !.n = @ + 1, !.hit = @ \/ Fails(c)]

Raise(c, error) == IF c.err # "none" THEN c ELSE [c EXCEPT !.err = error]

Log(c, event) == IF c.err # "none" THEN c ELSE [c EXCEPT !.tr = Append(@, event)]

\* System._run(command) with check=True: the command changes the world to w2;
\* it exits non-zero when the system cannot do it or the environment fails it.
Run(c, possible, w2) ==
    IF c.err # "none" THEN c
    ELSE IF Fails(c) \/ ~possible THEN [Tick(c) EXCEPT !.err = "SmbZfsError"]
    ELSE [Tick(c) EXCEPT !.w = w2]

\* A call of the os module (chown, chmod), which raises OSError.
OsCall(c, possible) ==
    IF c.err # "none" THEN c
    ELSE IF Fails(c) \/ ~possible THEN [Tick(c) EXCEPT !.err = "OSError"]
    ELSE Tick(c)

\* A command of the ZFS adapter, r its result on c.w.zfs.
ZfsRun(c, r) ==
    IF c.err # "none" THEN c
    ELSE [Tick(c) EXCEPT !.w.zfs = r.z, !.err = r.err]

-----------------------------------------------------------------------------
(* StateManager *)

initial_state ==
    [initialized |-> FALSE, primary_pool |-> "None", secondary_pools |-> <<>>,
     server_name |-> "None", workgroup |-> "None", macos_optimized |-> FALSE,
     default_home_quota |-> "None",
     users |-> EmptyFn, shares |-> EmptyFn, groups |-> EmptyFn]

StorageError == "SmbZfsError: Failed to write state file"

save_Merged(c) ==
    IF c.err # "none" THEN c
    ELSE [Tick(c) EXCEPT !.w.file = [c.w.data EXCEPT !.users = c.w.file.users @@ @]]

\* StateManager.save: json.dump of the whole in-memory store over the file.
save(c) ==
    IF c.err # "none" THEN c
    ELSE IF Fails(c) THEN [Tick(c) EXCEPT !.err = StorageError]
    ELSE [Tick(c) EXCEPT !.w.file = c.w.data]

is_initialized(w) == w.data.initialized

\* The state file when it has been deleted.
NoFile == [absent |-> TRUE]

\* StateManager.__init__: a missing state file is written with the initial
\* state, then the file is loaded.
load(f) == IF f = NoFile THEN initial_state ELSE f

state_set(c, key, value) ==
    IF c.err # "none" THEN c ELSE save([c EXCEPT !.w.data[key] = value])

has_item_Never(w, category, name) == FALSE

has_item(w, category, name) == name \in DOMAIN w.data[category]

set_item(c, category, name, value) ==
    IF c.err # "none" THEN c
    ELSE save([c EXCEPT !.w.data[category] = Put(@, name, value)])

delete_item(c, category, name) ==
    IF c.err # "none" \/ ~has_item(c.w, category, name) THEN c
    ELSE save([c EXCEPT !.w.data[category] = Drop(@, {name})])

\* The deep copy of the whole store that _transaction, modify_share and
\* modify_setup take before they change anything.
get_data_copy(w) == w.data

-----------------------------------------------------------------------------
(* System *)

user_exists(w, username) == username \in DOMAIN w.os_users

group_exists(w, groupname) == groupname \in DOMAIN w.os_groups

samba_user_exists(w, username) == username \in DOMAIN w.samba_users

add_system_user(c, username, shell) ==
    IF c.err # "none" \/ user_exists(c.w, username) THEN c
    ELSE Run(c, TRUE, [c.w EXCEPT !.os_users = Put(@, username, [shell |-> shell])])

\* userdel also takes the user out of every group.
delete_system_user(c, username) ==
    IF c.err # "none" \/ ~user_exists(c.w, username) THEN c
    ELSE Run(c, TRUE, [c.w EXCEPT
            !.os_users = Drop(@, {username}),
            !.os_groups = [g \in DOMAIN @ |-> @[g] \ {username}]])

add_system_group(c, groupname) ==
    IF c.err # "none" \/ group_exists(c.w, groupname) THEN c
    ELSE Run(c, TRUE, [c.w EXCEPT !.os_groups = Put(@, groupname, {})])

delete_system_group(c, groupname) ==
    IF c.err # "none" \/ ~group_exists(c.w, groupname) THEN c
    ELSE Run(c, TRUE, [c.w EXCEPT !.os_groups = Drop(@, {groupname})])

add_user_to_group_Skipped(c, username, groupname) == c

\* usermod -a -G.
add_user_to_group(c, username, groupname) ==
    IF c.err # "none" THEN c
    ELSE Run(c, user_exists(c.w, username) /\ group_exists(c.w, groupname),
             [c.w EXCEPT !.os_groups[groupname] = @ \cup {username}])

remove_user_from_group(c, username, groupname) ==
    IF c.err # "none" THEN c
    ELSE Run(c, group_exists(c.w, groupname) /\ username \in c.w.os_groups[groupname],
             [c.w EXCEPT !.os_groups[groupname] = @ \ {username}])

set_system_password(c, username) ==
    IF c.err # "none" THEN c ELSE Run(c, user_exists(c.w, username), c.w)

\* smbpasswd -a, then smbpasswd -e.
add_samba_user(c, username) ==
    IF c.err # "none" THEN c
    ELSE LET added == Run(c, user_exists(c.w, username),
                          [c.w EXCEPT !.samba_users =
                              IF username \in DOMAIN @ THEN @
                              ELSE Put(@, username, [enabled |-> TRUE])])
         IN  IF added.err # "none" THEN added
             ELSE Run(added, TRUE,
                      [added.w EXCEPT !.samba_users[username].enabled = TRUE])

delete_samba_user(c, username) ==
    IF c.err # "none" \/ ~samba_user_exists(c.w, username) THEN c
    ELSE Run(c, TRUE, [c.w EXCEPT !.samba_users = Drop(@, {username})])

test_samba_config_Unchecked(c) == c

\* testparm -s with check=True: a config that does not validate raises.
test_samba_config(c) == Log(Run(c, c.w.conf.present, c.w), "test_samba_config")

reload_samba(c) == Log(Run(c, TRUE, c.w), "reload_samba")

enable_services(c) == Run(c, TRUE, c.w)

restart_services(c) == Log(Run(c, TRUE, c.w), "restart_services")

\* systemctl stop and systemctl disable run with check=False: the exit code
\* is not looked at.
stop_services(c) == Log(c, "stop_services")

disable_services(c) == Log(c, "disable_services")

\* System.delete_gracefully on the state file: os.remove, whose OSError is
\* printed as a warning and not raised.
delete_state_file(c) ==
    IF c.err # "none" THEN c
    ELSE IF c.sfault THEN [c EXCEPT !.hit = TRUE]
    ELSE [c EXCEPT !.w.file = NoFile]

-----------------------------------------------------------------------------
(* ConfigGenerator: smb.conf as the sequence of its share stanzas. *)

no_conf == [present |-> FALSE, stanzas |-> <<>>, avahi |-> FALSE]

create_smb_conf(c) ==
    IF c.err # "none" THEN c
    ELSE Log([c EXCEPT !.w.conf.present = TRUE, !.w.conf.stanzas = <<>>], "write_conf")

\* The Avahi service file of the Samba service is written.
create_avahi_conf(c) ==
    IF c.err # "none" THEN c ELSE [c EXCEPT !.w.conf.avahi = TRUE]

\* restore_initial_state(SMB_CONF), with the delete_gracefully that follows
\* it when there was nothing to restore: the rendered smb.conf is gone.
restore_smb_conf(c) ==
    IF c.err # "none" THEN c
    ELSE [c EXCEPT !.w.conf.present = FALSE, !.w.conf.stanzas = <<>>]

\* restore_initial_state(AVAHI_SMB_SERVICE): the rendered service file is
\* gone.
restore_avahi_conf(c) ==
    IF c.err # "none" THEN c ELSE [c EXCEPT !.w.conf.avahi = FALSE]

add_share_to_conf(c, name, share_data) ==
    IF c.err # "none" THEN c
    ELSE Log([c EXCEPT !.w.conf.stanzas =
                 Append(@, [name |-> name, path |-> share_data.dataset.mount_point])],
             "write_conf")

remove_share_from_conf(c, name) ==
    IF c.err # "none" THEN c
    ELSE Log([c EXCEPT !.w.conf.stanzas = SelectSeq(@, LAMBDA st : st.name # name)],
             "write_conf")

-----------------------------------------------------------------------------
(* Zfs, as the engine calls it. *)

list_pools(w) == {d[1] : d \in {x \in DOMAIN w.zfs.ds : Len(x) = 1}}

zfs_create_dataset(c, dataset) ==
    IF c.err # "none" THEN c ELSE ZfsRun(c, create_dataset(c.w.zfs, dataset, ~Fails(c)))

zfs_destroy_dataset(c, dataset) ==
    IF c.err # "none" THEN c ELSE ZfsRun(c, destroy_dataset(c.w.zfs, dataset, ~Fails(c)))

\* zfs get mountpoint: a dataset is mounted at its path.
get_mountpoint(c, dataset) ==
    IF c.err # "none" THEN c ELSE Run(c, dataset_exists(c.w.zfs, dataset), c.w)

set_quota(c, dataset, quota) ==
    IF c.err # "none" \/ ~dataset_exists(c.w.zfs, dataset) THEN c
    ELSE Run(c, TRUE, [c.w EXCEPT !.zfs.ds[dataset].quota = quota])

-----------------------------------------------------------------------------
(* SmbZfsManager._transaction.  A rollback action is the closure appended   *)
(* to the rollback list: what it calls and on which name.                   *)

Action(kind, name) == [kind |-> kind, name |-> name]

Register_Forgotten(c, action) == c

\* rollback.append(...), reached only when the step before it succeeded.
Register(c, action) ==
    IF c.err # "none" THEN c ELSE [c EXCEPT !.rb = Append(@, action)]

\* The body of one rollback closure.
RunAction(c, action) ==
    CASE action.kind = "destroy_dataset" -> zfs_destroy_dataset(c, action.name)
      [] action.kind = "delete_system_user" -> delete_system_user(c, action.name)
      [] action.kind = "delete_samba_user" -> delete_samba_user(c, action.name)
      [] action.kind = "delete_system_group" -> delete_system_group(c, action.name)
      [] action.kind = "samba_rollback" ->
            reload_samba(test_samba_config(remove_share_from_conf(c, action.name)))

\* Lines 66-72: for action in reversed(rollback_actions), each in its own
\* try/except that only prints the failure.
RECURSIVE RunRollback(_, _, _)
RunRollback(c, actions, i) ==
    IF actions = <<>> THEN c
    ELSE LET action == Head(actions)
             sub == RunAction([c EXCEPT !.err = "none", !.n = 0,
                                        !.fault = IF c.rfault = i THEN 1 ELSE 0], action)
             next == [c EXCEPT !.w = sub.w, !.tr = sub.tr, !.hit = @ \/ sub.hit,
                               !.rolled = Append(@, action),
                               !.rb_failed = IF sub.err # "none" THEN @ \cup {action.kind} ELSE @]
         IN  RunRollback(next, Tail(actions), i + 1)

\* Lines 62-80: the except branch of the context manager, run when the body
\* ended with an exception.  self._state.save() is not inside a try: when it
\* raises, its error is the one that leaves the handler.
transaction_end(c, original_state_data) ==
    IF c.err = "none" THEN c
    ELSE LET rolled == RunRollback([c EXCEPT !.trigger = c.err], Reverse(c.rb), 1)
             restored == [rolled EXCEPT !.w.data = original_state_data]
         IN  IF restored.sfault
             THEN [restored EXCEPT !.err = StorageError, !.restore = "failed",
                                   !.hit = TRUE]
             ELSE [restored EXCEPT !.w.file = original_state_data,
                                   !.err = restored.trigger, !.restore = "saved"]

\* requires_initialization / _check_initialized.
check_initialized_Skipped(c) == c

check_initialized(c) ==
    IF is_initialized(c.w) THEN c ELSE Raise(c, "NotInitializedError")

-----------------------------------------------------------------------------
(* SmbZfsManager.setup *)

smb_users_record == [description |-> "Samba Users Group", members |-> <<>>]

RECURSIVE all_in(_, _)
all_in(pools, available) ==
    pools = <<>> \/ (Head(pools) \in available /\ all_in(Tail(pools), available))

setup(c0, primary_pool, secondary_pools, server_name, workgroup, macos_optimized, default_home_quota, packages_installed) ==
    IF is_initialized(c0.w) THEN Raise(c0, "AlreadyInitializedError")
    ELSE IF ~packages_installed THEN Raise(c0, "PrerequisiteError")
    ELSE LET c1 == Run(c0, TRUE, c0.w)           \* zpool list
             available_pools == list_pools(c0.w)
         IN  IF c1.err # "none" THEN c1
             ELSE IF primary_pool \notin available_pools
                     \/ ~all_in(secondary_pools, available_pools)
             THEN Raise(c1, "StateItemNotFoundError")
             ELSE
    LET homes == <<primary_pool, "homes">>
        c2 == zfs_create_dataset(c1, homes)
        c3 == get_mountpoint(c2, homes)
        c4 == OsCall(c3, TRUE)                  \* os.chmod(homes_mountpoint, 0o755)
        c5 == add_system_group(c4, "smb_users")
        c6 == create_smb_conf(c5)
        c7 == test_samba_config(create_avahi_conf(c6))
        c8 == enable_services(c7)
        c9 == restart_services(c8)
        s1 == state_set(c9, "initialized", TRUE)
        s2 == state_set(s1, "primary_pool", primary_pool)
        s3 == state_set(s2, "secondary_pools", secondary_pools)
        s4 == state_set(s3, "server_name", server_name)
        s5 == state_set(s4, "workgroup", workgroup)
        s6 == state_set(s5, "macos_optimized", macos_optimized)
        s7 == state_set(s6, "default_home_quota", default_home_quota)
    IN  set_item(s7, "groups", "smb_users", smb_users_record)

-----------------------------------------------------------------------------
(* SmbZfsManager.create_user and delete_user *)

\* Lines 244-250: the loop over the groups argument.
RECURSIVE add_to_groups(_, _, _)
add_to_groups(c, username, groups) ==
    IF c.err # "none" \/ groups = <<>> THEN c
    ELSE IF has_item(c.w, "groups", Head(groups))
         THEN add_to_groups(add_user_to_group(c, username, Head(groups)),
                            username, Tail(groups))
         ELSE Raise(c, "StateItemNotFoundError")

create_user_body(c0, username, allow_shell, groups, create_home) ==
    LET primary_pool == c0.w.data.primary_pool
        home_dataset_name == <<primary_pool, "homes", username>>
        default_home_quota == c0.w.data.default_home_quota
        c1 == IF create_home
              THEN Register(zfs_create_dataset(c0, home_dataset_name),
                            Action("destroy_dataset", home_dataset_name))
              ELSE c0
        c2 == IF create_home THEN get_mountpoint(c1, home_dataset_name) ELSE c1
        c3 == IF create_home /\ default_home_quota # "None"
              THEN set_quota(c2, home_dataset_name, default_home_quota) ELSE c2
        user_data ==
            IF create_home
            THEN [shell_access |-> allow_shell, groups |-> groups,
                  dataset |-> [name |-> home_dataset_name,
                               mount_point |-> home_dataset_name,
                               quota |-> default_home_quota,
                               pool |-> primary_pool]]
            ELSE [shell_access |-> allow_shell, groups |-> groups]
        c4 == Register(add_system_user(c3, username,
                           IF allow_shell THEN "/bin/bash" ELSE "/usr/sbin/nologin"),
                       Action("delete_system_user", username))
        c5 == IF create_home THEN OsCall(c4, TRUE) ELSE c4     \* os.chown, os.chmod
        c6 == IF allow_shell THEN set_system_password(c5, username) ELSE c5
        c7 == Register(add_samba_user(c6, username),
                       Action("delete_samba_user", username))
        c8 == add_user_to_group(c7, username, "smb_users")
        c9 == add_to_groups(c8, username, groups)
    IN  set_item(c9, "users", username, user_data)

create_user(c0, username, allow_shell, groups, create_home) ==
    LET c == check_initialized(c0)
    IN  IF c.err # "none" THEN c
        ELSE IF has_item(c.w, "users", username) THEN Raise(c, "ItemExistsError")
        ELSE IF user_exists(c.w, username) THEN Raise(c, "ItemExistsError")
        ELSE transaction_end(
                create_user_body(c, username, allow_shell, groups, create_home),
                get_data_copy(c.w))

delete_user(c0, username, delete_data) ==
    LET c == check_initialized(c0)
    IN  IF c.err # "none" THEN c
        ELSE IF ~has_item(c.w, "users", username) THEN Raise(c, "StateItemNotFoundError")
        ELSE LET user_info == c.w.data.users[username]
                 c1 == delete_samba_user(c, username)
                 c2 == delete_system_user(c1, username)
                 c3 == IF delete_data /\ "dataset" \in DOMAIN user_info
                       THEN zfs_destroy_dataset(c2, user_info.dataset.name)
                       ELSE c2
             IN  delete_item(c3, "users", username)

-----------------------------------------------------------------------------
(* SmbZfsManager.create_group and delete_group *)

\* Lines 290-296: the loop over the members argument.
RECURSIVE add_members(_, _, _)
add_members(c, groupname, members) ==
    IF c.err # "none" \/ members = <<>> THEN c
    ELSE IF ~has_item(c.w, "users", Head(members))
         THEN Raise(c, "StateItemNotFoundError")
         ELSE add_members(add_user_to_group(c, Head(members), groupname),
                          groupname, Tail(members))

create_group_body(c0, groupname, members) ==
    LET c1 == Register(add_system_group(c0, groupname),
                       Action("delete_system_group", groupname))
        c2 == add_members(c1, groupname, members)
    IN  set_item(c2, "groups", groupname,
                 [description |-> "Group", members |-> members])

create_group(c0, groupname, members) ==
    LET c == check_initialized(c0)
    IN  IF c.err # "none" THEN c
        ELSE IF has_item(c.w, "groups", groupname) THEN Raise(c, "ItemExistsError")
        ELSE IF group_exists(c.w, groupname) THEN Raise(c, "ItemExistsError")
        ELSE transaction_end(create_group_body(c, groupname, members),
                             get_data_copy(c.w))

MandatoryGroupError == "SmbZfsError: Cannot delete the mandatory 'smb_users' group."

IsMandatoryGroup_Never(groupname) == FALSE

\* Line 312.
IsMandatoryGroup(groupname) == groupname = "smb_users"

delete_group(c0, groupname) ==
    LET c == check_initialized(c0)
    IN  IF c.err # "none" THEN c
        ELSE IF ~has_item(c.w, "groups", groupname)
        THEN Raise(c, "StateItemNotFoundError")
        ELSE IF IsMandatoryGroup(groupname) THEN Raise(c, MandatoryGroupError)
        ELSE delete_item(delete_system_group(c, groupname), "groups", groupname)

-----------------------------------------------------------------------------
(* SmbZfsManager.modify_group.  s holds the context c and the local set     *)
(* current_members.                                                         *)

\* sorted() on the user names used here.
UserOrder == <<"alice", "bob", "ghost">>

sorted_users(names) == SelectSeq(UserOrder, LAMBDA u : u \in names)

\* Lines 455-460: every user to add is looked up in the store, added to the
\* OS group and then to current_members.
RECURSIVE group_add_users(_, _, _)
group_add_users(s, groupname, add_users) ==
    IF s.c.err # "none" \/ add_users = <<>> THEN s
    ELSE IF ~has_item(s.c.w, "users", Head(add_users))
         THEN [s EXCEPT !.c = Raise(@, "StateItemNotFoundError")]
         ELSE group_add_users(
                  [c |-> add_user_to_group(s.c, Head(add_users), groupname),
                   current_members |-> s.current_members \cup {Head(add_users)}],
                  groupname, Tail(add_users))

\* Lines 462-469: every user to remove is looked up in the store; one that
\* is in current_members is taken out of the OS group and of the set.
RECURSIVE group_remove_users(_, _, _)
group_remove_users(s, groupname, remove_users) ==
    IF s.c.err # "none" \/ remove_users = <<>> THEN s
    ELSE IF ~has_item(s.c.w, "users", Head(remove_users))
         THEN [s EXCEPT !.c = Raise(@, "StateItemNotFoundError")]
         ELSE group_remove_users(
                  IF Head(remove_users) \in s.current_members
                  THEN [c |-> remove_user_from_group(s.c, Head(remove_users), groupname),
                        current_members |-> s.current_members \ {Head(remove_users)}]
                  ELSE s,
                  groupname, Tail(remove_users))

\* Lines 471-472: the members of the record become the sorted set, and the
\* record is stored and saved.
modify_group_persist(s, groupname) ==
    IF s.c.err # "none" THEN s.c
    ELSE set_item(s.c, "groups", groupname,
                  [s.c.w.data.groups[groupname] EXCEPT
                       !.members = sorted_users(s.current_members)])

no_users_given_Never(add_users, remove_users) == FALSE

\* Line 451: neither list holds a user (None and [] are both falsy).
no_users_given(add_users, remove_users) == add_users = <<>> /\ remove_users = <<>>

modify_group(c0, groupname, add_users, remove_users) ==
    LET c == check_initialized(c0)
    IN  IF c.err # "none" THEN c
        ELSE IF ~has_item(c.w, "groups", groupname)
        THEN Raise(c, "StateItemNotFoundError")
        ELSE IF no_users_given(add_users, remove_users) THEN Raise(c, "MissingInput")
        ELSE modify_group_persist(
                 group_remove_users(
                     group_add_users(
                         [c |-> c,
                          current_members |-> Range(c.w.data.groups[groupname].members)],
                         groupname, add_users),
                     groupname, remove_users),
                 groupname)

-----------------------------------------------------------------------------
(* SmbZfsManager.create_share and delete_share.  valid_users is the list of *)
(* its comma-separated tokens, a token the sequence of its parts:           *)
(* <<"@", "eng">> for @eng, <<"alice">> for alice; "None" is no argument.   *)

RECURSIVE lstrip_at(_)
lstrip_at(item) ==
    IF item # <<>> /\ Head(item) = "@" THEN lstrip_at(Tail(item)) ELSE item

\* Lines 382-389 (and 558-563): every token names an OS group or an OS user.
RECURSIVE check_valid_users(_, _)
check_valid_users(c, items) ==
    IF c.err # "none" \/ items = <<>> THEN c
    ELSE LET item == Head(items)
             item_name == lstrip_at(item)
         IN  IF "@" \in Range(item)
             THEN IF ~group_exists(c.w, item_name[1])
                  THEN Raise(c, "StateItemNotFoundError")
                  ELSE check_valid_users(c, Tail(items))
             ELSE IF ~user_exists(c.w, item_name[1])
                  THEN Raise(c, "StateItemNotFoundError")
                  ELSE check_valid_users(c, Tail(items))

create_share_body(c0, name, full_dataset, owner, group, perms, comment, valid_users, quota, target_pool) ==
    LET c1 == Register(zfs_create_dataset(c0, full_dataset),
                       Action("destroy_dataset", full_dataset))
        c2 == IF quota # "None" THEN set_quota(c1, full_dataset, quota) ELSE c1
        c3 == get_mountpoint(c2, full_dataset)
        \* pwd.getpwnam, grp.getgrnam, os.chown, os.chmod
        c4 == OsCall(c3, user_exists(c3.w, owner) /\ group_exists(c3.w, group))
        c5 == IF valid_users # "None" THEN check_valid_users(c4, valid_users) ELSE c4
        share_data ==
            [dataset |-> [name |-> full_dataset, mount_point |-> full_dataset,
                          quota |-> quota, pool |-> target_pool],
             smb_config |-> [comment |-> comment, browseable |-> TRUE,
                             read_only |-> FALSE,
                             valid_users |-> IF valid_users # "None" THEN valid_users
                                             ELSE <<(<<"@", group>>)>>],
             system |-> [owner |-> owner, group |-> group, permissions |-> perms]]
        c6 == Register(add_share_to_conf(c5, name, share_data),
                       Action("samba_rollback", name))
        c7 == reload_samba(test_samba_config(c6))
    IN  set_item(c7, "shares", name, share_data)

ValidPermissions(perms) == perms \in {"775", "0775", "700"}

create_share(c0, name, dataset_path, owner, group, perms, comment, valid_users, quota, pool) ==
    LET c == check_initialized(c0)
    IN  IF c.err # "none" THEN c
        ELSE IF has_item(c.w, "shares", name) THEN Raise(c, "ItemExistsError")
        ELSE IF ".." \in Range(dataset_path) \/ dataset_path[1] = "/"
        THEN Raise(c, "InvalidNameError")
        ELSE IF ~ValidPermissions(perms) THEN Raise(c, "InvalidNameError")
        ELSE IF ~user_exists(c.w, owner) THEN Raise(c, "StateItemNotFoundError")
        ELSE IF ~group_exists(c.w, group) THEN Raise(c, "StateItemNotFoundError")
        ELSE LET primary_pool == c.w.data.primary_pool
                 managed_pools == {primary_pool} \cup Range(c.w.data.secondary_pools)
                 target_pool == IF pool # "None" THEN pool ELSE primary_pool
             IN  IF target_pool \notin managed_pools
                 THEN Raise(c, "SmbZfsError: not a valid pool")
                 ELSE transaction_end(
                        create_share_body(c, name, <<target_pool>> \o dataset_path,
                                          owner, group, perms, comment, valid_users,
                                          quota, target_pool),
                        get_data_copy(c.w))

delete_share(c0, name, delete_data) ==
    LET c == check_initialized(c0)
    IN  IF c.err # "none" THEN c
        ELSE IF ~has_item(c.w, "shares", name) THEN Raise(c, "StateItemNotFoundError")
        ELSE LET share_info == c.w.data.shares[name]
                 c1 == reload_samba(test_samba_config(remove_share_from_conf(c, name)))
                 c2 == IF delete_data
                       THEN zfs_destroy_dataset(c1, share_info.dataset.name)
                       ELSE c1
             IN  delete_item(c2, "shares", name)

-----------------------------------------------------------------------------
(* Zfs.rename_dataset and Zfs.move_dataset as the engine calls them.        *)

Rebase(old, new, d) == new \o SubSeq(d, Len(old) + 1, Len(d))

\* zfs rename: the dataset, its descendants and their snapshots get the new
\* name.
zfs_rename(z, old, new, ok) ==
    IF ~ok \/ ~dataset_exists(z, old) \/ dataset_exists(z, new)
          \/ ~dataset_exists(z, SubSeq(new, 1, Len(new) - 1))
    THEN ZfsFail(z)
    ELSE LET moved == {d \in DOMAIN z.ds : IsPrefix(old, d)}
             kept == DOMAIN z.ds \ moved
             msn == {x \in DOMAIN z.sn : IsPrefix(old, x[1])}
             ksn == DOMAIN z.sn \ msn
         IN  ZfsOk([ds |-> [d \in kept \cup {Rebase(old, new, m) : m \in moved} |->
                              IF d \in kept THEN z.ds[d]
                              ELSE z.ds[CHOOSE m \in moved : Rebase(old, new, m) = d]],
                    sn |-> [x \in ksn \cup {<<Rebase(old, new, m[1]), m[2]>> : m \in msn} |->
                              IF x \in ksn THEN z.sn[x]
                              ELSE z.sn[CHOOSE m \in msn :
                                          <<Rebase(old, new, m[1]), m[2]>> = x]]])

rename_dataset(c, old_dataset, new_dataset) ==
    IF c.err # "none" THEN c
    ELSE IF ~dataset_exists(c.w.zfs, old_dataset) THEN Raise(c, "ZfsCmdError")
    ELSE IF dataset_exists(c.w.zfs, new_dataset) THEN Raise(c, "ZfsCmdError")
    ELSE ZfsRun(c, zfs_rename(c.w.zfs, old_dataset, new_dataset, ~Fails(c)))

\* The errors move_dataset raises itself are ZfsCmdError; an exception its
\* handler does not catch reaches the caller as it is.
MoveError(result) ==
    IF result \in {"SourceMissing", "PoolMissing", "NotEnoughSpace",
                   "DestinationExists", "MoveFailed"}
    THEN "ZfsCmdError" ELSE result

\* The step at position pc of a move, when the move is there.
MoveStep(s, pc, Op(_)) == IF s.m.pc = pc THEN Op(s) ELSE s

\* How the call that ran the move to s goes on: fired, when the command the
\* environment fails was reached.
move_end(c, s, steps, fired) ==
    [c EXCEPT !.w.zfs = s.z, !.n = @ + steps,
              !.hit = @ \/ (fired /\ s.m.result = "SmbZfsError"),
              !.err = IF s.m.result = "ok" THEN "none" ELSE MoveError(s.m.result)]

\* One call of move_dataset run to its end.  Its commands with check=True are
\* fallible steps of the caller: the zfs create of each of the P ancestors,
\* the snapshot, the send | recv, and the two destroys; f is the one of them
\* the environment fails.  The pool has room and the receive gives the
\* destination snapshot the guid of the source.
move_steps(s0, P, f, leaves_partial) ==
    LET s2 == MoveStep(s0, "parents", LAMBDA s :
                  move_create_parents(s.m, s.z, IF f \in 1..P THEN f ELSE 0))
        s3 == MoveStep(s2, "check_dest", LAMBDA s : move_check_dest(s.m, s.z))
        s4 == MoveStep(s3, "snapshot", LAMBDA s : move_snapshot(s.m, s.z, f # P + 1))
        s5 == MoveStep(s4, "send_recv", LAMBDA s :
                  move_send_recv(s.m, s.z, "g1", f # P + 2, leaves_partial))
        s6 == MoveStep(s5, "read_guids", LAMBDA s : move_read_guids(s.m, s.z, TRUE, TRUE))
        s7 == MoveStep(s6, "verify", LAMBDA s : move_verify(s.m, s.z))
        s8 == MoveStep(s7, "destroy_source", LAMBDA s :
                  move_destroy_source(s.m, s.z, f # P + 3))
        s9 == MoveStep(s8, "destroy_dest_snapshot", LAMBDA s :
                  move_destroy_dest_snapshot(s.m, s.z, f # P + 4))
    IN  MoveStep(s9, "except", LAMBDA s : move_except(s.m, s.z, TRUE, TRUE))

move_dataset(c, dataset_path, new_pool, snapshot_name, leaves_partial) ==
    IF c.err # "none" THEN c
    ELSE LET P == Len(dataset_path) - 2
             f == IF c.fault > c.n THEN c.fault - c.n ELSE 0
         IN  move_end(c,
                 move_steps(move_validate(move_begin(c.w.zfs, dataset_path, new_pool,
                                                     snapshot_name),
                                          c.w.zfs, 0, MaxBytes),
                            P, f, leaves_partial),
                 P + 4, f \in 1..(P + 4))

-----------------------------------------------------------------------------
(* SmbZfsManager.modify_share.  s holds the context c and the locals         *)
(* share_info, share_name and samba_config_changed (changed).  share_info   *)
(* is the record inside the store, not a copy: an assignment to one of its  *)
(* fields changes the store at once, without a save.                        *)

\* str.lower on the names used here.
lower(name) ==
    CASE name = "Docs" -> "docs"
      [] name = "Media" -> "media"
      [] name = "NONE" -> "none"
      [] OTHER -> name

\* share_info[...] = ...: the record changes where the store holds it.
Mutate(s, share_info) ==
    [s EXCEPT !.share_info = share_info,
              !.c.w.data.shares =
                  IF s.share_name \in DOMAIN @
                  THEN [@ EXCEPT ![s.share_name] = share_info] ELSE @]

Failed(s, error) == [s EXCEPT !.c = Raise(@, error)]

\* The next statements of the try block, skipped when an exception is in
\* flight.
Do(s, Step(_)) == IF s.c.err # "none" THEN s ELSE Step(s)

Changed(s) == [s EXCEPT !.changed = TRUE]

modify_share_pool_Skipped(s0, pool, snapshot_name, leaves_partial) == s0

\* Lines 488-502: the pool change.
modify_share_pool(s0, pool, snapshot_name, leaves_partial) ==
    IF s0.c.err # "none" \/ pool = "None" \/ pool = s0.share_info.dataset.pool THEN s0
    ELSE IF pool \notin {s0.c.w.data.primary_pool} \cup Range(s0.c.w.data.secondary_pools)
    THEN Failed(s0, "SmbZfsError: not a valid pool")
    ELSE LET s1 == [s0 EXCEPT !.c = move_dataset(@, s0.share_info.dataset.name, pool,
                                                 snapshot_name, leaves_partial)]
             s2 == Do(s1, LAMBDA s : Mutate(s, [s.share_info EXCEPT
                          !.dataset.pool = pool,
                          !.dataset.name = <<pool>> \o Tail(@)]))
             s3 == Do(s2, LAMBDA s :
                          [s EXCEPT !.c = get_mountpoint(@, s.share_info.dataset.name)])
         IN  Do(s3, LAMBDA s : Changed(Mutate(s, [s.share_info EXCEPT
                          !.dataset.mount_point = s.share_info.dataset.name])))

\* Lines 504-519: the rename.  The record is stored under the new key, which
\* replaces whatever was there, and the original key is deleted.
modify_share_rename(s0, name, original_share_name) ==
    IF s0.c.err # "none" \/ name = "None" THEN s0
    ELSE LET new_share_name == lower(name)
             current_dataset_path == s0.share_info.dataset.name
             new_dataset_name ==
                 SubSeq(current_dataset_path, 1, Len(current_dataset_path) - 1)
                     \o <<new_share_name>>
             s1 == [s0 EXCEPT !.c = rename_dataset(@, current_dataset_path,
                                                   new_dataset_name)]
             s2 == Do(s1, LAMBDA s : Mutate(s, [s.share_info EXCEPT
                          !.dataset.name = new_dataset_name]))
             s3 == Do(s2, LAMBDA s : [s EXCEPT !.c = get_mountpoint(@, new_dataset_name)])
             s4 == Do(s3, LAMBDA s : Mutate(s, [s.share_info EXCEPT
                          !.dataset.mount_point = new_dataset_name]))
         IN  Do(s4, LAMBDA s : Changed(
                 [s EXCEPT !.c = delete_item(set_item(@, "shares", new_share_name,
                                                      s.share_info),
                                             "shares", original_share_name),
                           !.share_name = new_share_name]))

\* Lines 521-525.
modify_share_quota(s0, quota) ==
    IF s0.c.err # "none" \/ quota = "None" THEN s0
    ELSE LET new_quota == IF lower(quota) = "none" THEN "none" ELSE quota
             s1 == Mutate(s0, [s0.share_info EXCEPT !.dataset.quota = new_quota])
         IN  Do(s1, LAMBDA s :
                 [s EXCEPT !.c = set_quota(@, s.share_info.dataset.name, new_quota)])

\* Lines 540-550: chown and chmod of the mount point, when one of the three
\* was given.
modify_share_chown(s, system_changed) ==
    IF s.c.err # "none" \/ ~system_changed THEN s
    ELSE [s EXCEPT !.c = Log(OsCall(@, /\ user_exists(s.c.w, s.share_info.system.owner)
                                       /\ group_exists(s.c.w, s.share_info.system.group)),
                             "chown")]

\* Lines 527-550.
modify_share_system(s0, owner, group, permissions) ==
    LET s1 == Do(s0, LAMBDA s :
                  IF owner = "None" THEN s
                  ELSE IF ~user_exists(s.c.w, owner)
                  THEN Failed(s, "StateItemNotFoundError")
                  ELSE Mutate(s, [s.share_info EXCEPT !.system.owner = owner]))
        s2 == Do(s1, LAMBDA s :
                  IF group = "None" THEN s
                  ELSE IF ~group_exists(s.c.w, group)
                  THEN Failed(s, "StateItemNotFoundError")
                  ELSE Mutate(s, [s.share_info EXCEPT !.system.group = group]))
        s3 == Do(s2, LAMBDA s :
                  IF permissions = "None" THEN s
                  ELSE IF ~ValidPermissions(permissions)
                  THEN Failed(s, "InvalidNameError")
                  ELSE Mutate(s, [s.share_info EXCEPT
                                     !.system.permissions = permissions]))
    IN  modify_share_chown(s3, owner # "None" \/ group # "None" \/ permissions # "None")

\* Lines 552-571.  An optional boolean argument is <<>> for None and <<b>> for
\* the boolean b.
modify_share_smb(s0, comment, valid_users, read_only, browseable) ==
    LET s1 == Do(s0, LAMBDA s :
                  IF comment = "None" THEN s
                  ELSE Changed(Mutate(s, [s.share_info EXCEPT
                                             !.smb_config.comment = comment])))
        s2 == Do(s1, LAMBDA s :
                  IF valid_users = "None" THEN s
                  ELSE [s EXCEPT !.c = check_valid_users(@, valid_users)])
        s3 == Do(s2, LAMBDA s :
                  IF valid_users = "None" THEN s
                  ELSE Changed(Mutate(s, [s.share_info EXCEPT
                                             !.smb_config.valid_users = valid_users])))
        s4 == Do(s3, LAMBDA s :
                  IF read_only = <<>> THEN s
                  ELSE Changed(Mutate(s, [s.share_info EXCEPT
                                             !.smb_config.read_only = read_only[1]])))
    IN  Do(s4, LAMBDA s :
                  IF browseable = <<>> THEN s
                  ELSE Changed(Mutate(s, [s.share_info EXCEPT
                                             !.smb_config.browseable = browseable[1]])))

\* Lines 573-579.
modify_share_persist(s, original_share_name) ==
    IF ~s.changed THEN set_item(s.c, "shares", s.share_name, s.share_info)
    ELSE reload_samba(test_samba_config(
             add_share_to_conf(
                 remove_share_from_conf(
                     set_item(s.c, "shares", s.share_name, s.share_info),
                     original_share_name),
                 s.share_name, s.share_info)))

\* The save of the except branch of modify_share and of modify_setup.
restore_save(restored, original_state) ==
    IF restored.sfault
    THEN [restored EXCEPT !.err = StorageError, !.restore = "failed", !.hit = TRUE]
    ELSE [restored EXCEPT !.w.file = original_state, !.restore = "saved"]

\* The except branch of modify_share and of modify_setup: the store is set
\* back to the copy and saved, outside any try, and the exception is raised
\* again.
restore_state(c, original_state) ==
    IF c.err = "none" THEN c
    ELSE restore_save([c EXCEPT !.w.data = original_state], original_state)

modify_share(c0, share_name, name, pool, quota, owner, group, permissions, comment, valid_users, read_only, browseable, snapshot_name, leaves_partial) ==
    IF ~is_initialized(c0.w) THEN Raise(c0, "NotInitializedError")
    ELSE IF ~has_item(c0.w, "shares", share_name)
    THEN Raise(c0, "StateItemNotFoundError")
    ELSE restore_state(
           modify_share_persist(
             modify_share_smb(
               modify_share_system(
                 modify_share_quota(
                   modify_share_rename(
                     modify_share_pool(
                       [c |-> c0, share_info |-> c0.w.data.shares[share_name],
                        share_name |-> share_name, changed |-> FALSE],
                       pool, snapshot_name, leaves_partial),
                     name, share_name),
                   quota),
                 owner, group, permissions),
               comment, valid_users, read_only, browseable),
             share_name),
           get_data_copy(c0.w))

-----------------------------------------------------------------------------
(* SmbZfsManager.list_items and modify_setup.  A loop over the items of a   *)
(* dict takes them in the order of the dict, given here as the sequence     *)
(* order of its keys.                                                       *)

\* The next statements, skipped when an exception is in flight.
Then(c, Step(_)) == IF c.err # "none" THEN c ELSE Step(c)

\* Zfs.get_quota: the quota property, or None for a dataset that is not there.
get_quota(w, dataset) ==
    IF dataset_exists(w.zfs, dataset) THEN w.zfs.ds[dataset].quota ELSE "None"

shown_quota(quota) == IF quota # "None" /\ quota # "none" THEN quota ELSE "Not Set"

\* Lines 747-750: list_items("shares") writes the live quota of every share
\* into the records of the store, which it returns; nothing is saved.
RECURSIVE list_shares(_, _)
list_shares(c, order) ==
    IF c.err # "none" \/ order = <<>> THEN c
    ELSE list_shares(
             Then(Run(c, TRUE, c.w),                      \* zfs get quota
                  LAMBDA x : [x EXCEPT !.w.data.shares[Head(order)].dataset.quota =
                      shown_quota(get_quota(x.w, x.w.data.shares[Head(order)].dataset.name))]),
             Tail(order))

\* Lines 741-745: list_items("users") does the same with the record of every
\* user that has a dataset.
RECURSIVE list_users(_, _)
list_users(c, order) ==
    IF c.err # "none" \/ order = <<>> THEN c
    ELSE IF "dataset" \notin DOMAIN c.w.data.users[Head(order)]
         THEN list_users(c, Tail(order))
         ELSE list_users(
                  Then(Run(c, TRUE, c.w),                      \* zfs get quota
                       LAMBDA x : [x EXCEPT !.w.data.users[Head(order)].dataset.quota =
                           shown_quota(get_quota(x.w, x.w.data.users[Head(order)].dataset.name))]),
                  Tail(order))

Categories == {"users", "groups", "shares", "pools"}

list_items(c0, category, users_order, shares_order) ==
    LET c == check_initialized(c0)
    IN  IF c.err # "none" THEN c
        ELSE IF category \notin Categories THEN Raise(c, "SmbZfsError")
        ELSE IF category = "users" THEN list_users(c, users_order)
        ELSE IF category = "shares" THEN list_shares(c, shares_order)
        ELSE c

get_state(c0) == check_initialized(c0)

-----------------------------------------------------------------------------
(* SmbZfsManager.modify_home and change_password *)

\* quota if quota and quota.lower() != 'none' else 'none'.
new_home_quota(quota) ==
    IF quota # "None" /\ quota # "" /\ lower(quota) # "none" THEN quota ELSE "none"

\* user_info["dataset"] of a user created without a home raises KeyError.
modify_home(c0, username, quota) ==
    LET c == check_initialized(c0)
    IN  IF c.err # "none" THEN c
        ELSE IF ~has_item(c.w, "users", username) THEN Raise(c, "StateItemNotFoundError")
        ELSE IF "dataset" \notin DOMAIN c.w.data.users[username] THEN Raise(c, "KeyError")
        ELSE Then(set_quota(c, c.w.data.users[username].dataset.name, new_home_quota(quota)),
                  LAMBDA x : set_item(x, "users", username,
                                 [x.w.data.users[username] EXCEPT
                                      !.dataset.quota = new_home_quota(quota)]))

set_samba_password(c, username) ==
    IF c.err # "none" THEN c ELSE Run(c, samba_user_exists(c.w, username), c.w)

change_password(c0, username) ==
    LET c == check_initialized(c0)
    IN  IF c.err # "none" THEN c
        ELSE IF ~has_item(c.w, "users", username) THEN Raise(c, "StateItemNotFoundError")
        ELSE set_samba_password(
                 IF c.w.data.users[username].shell_access
                 THEN set_system_password(c, username) ELSE c,
                 username)

\* str.replace(old, new, 1) on a dataset name: the first component that is
\* old becomes new.
RECURSIVE replace_first(_, _, _)
replace_first(name, old, new) ==
    IF name = <<>> THEN name
    ELSE IF Head(name) = old THEN <<new>> \o Tail(name)
    ELSE <<Head(name)>> \o replace_first(Tail(name), old, new)

move_user_Skipped(c0, username, old_primary_pool, primary_pool, snapshot_name, leaves_partial) == c0

\* Lines 614-621: one user of the loop that moves the home datasets.
move_user(c0, username, old_primary_pool, primary_pool, snapshot_name, leaves_partial) ==
    IF "dataset" \notin DOMAIN c0.w.data.users[username] THEN Raise(c0, "KeyError")
    ELSE Then(Then(Then(Then(
             move_dataset(c0, c0.w.data.users[username].dataset.name, primary_pool,
                          snapshot_name, leaves_partial),
             LAMBDA x : [x EXCEPT !.w.data.users[username].dataset.name =
                            replace_first(@, old_primary_pool, primary_pool)]),
             LAMBDA x : get_mountpoint(x, x.w.data.users[username].dataset.name)),
             LAMBDA x : [x EXCEPT !.w.data.users[username].dataset.mount_point =
                                      x.w.data.users[username].dataset.name,
                                  !.w.data.users[username].dataset.pool = primary_pool]),
             LAMBDA x : set_item(x, "users", username, x.w.data.users[username]))

RECURSIVE move_users(_, _, _, _, _, _)
move_users(c, order, old_primary_pool, primary_pool, snapshot_name, leaves_partial) ==
    IF c.err # "none" \/ order = <<>> THEN c
    ELSE move_users(move_user(c, Head(order), old_primary_pool, primary_pool,
                              snapshot_name, leaves_partial),
                    Tail(order), old_primary_pool, primary_pool, snapshot_name,
                    leaves_partial)

\* Lines 626-637: one share of the loop that moves the shares of the old
\* primary pool.
move_share(c0, share_name, old_primary_pool, primary_pool, snapshot_name, leaves_partial) ==
    IF c0.w.data.shares[share_name].dataset.pool # old_primary_pool THEN c0
    ELSE Then(Then(Then(Then(
             move_dataset(c0, c0.w.data.shares[share_name].dataset.name, primary_pool,
                          snapshot_name, leaves_partial),
             LAMBDA x : [x EXCEPT
                 !.w.data.shares[share_name].dataset.pool = primary_pool,
                 !.w.data.shares[share_name].dataset.name = <<primary_pool>> \o Tail(@)]),
             LAMBDA x : get_mountpoint(x, x.w.data.shares[share_name].dataset.name)),
             LAMBDA x : [x EXCEPT !.w.data.shares[share_name].dataset.mount_point =
                                      x.w.data.shares[share_name].dataset.name]),
             LAMBDA x : set_item(x, "shares", share_name, x.w.data.shares[share_name]))

RECURSIVE move_shares(_, _, _, _, _, _)
move_shares(c, order, old_primary_pool, primary_pool, snapshot_name, leaves_partial) ==
    IF c.err # "none" \/ order = <<>> THEN c
    ELSE move_shares(move_share(c, Head(order), old_primary_pool, primary_pool,
                                snapshot_name, leaves_partial),
                     Tail(order), old_primary_pool, primary_pool, snapshot_name,
                     leaves_partial)

\* Lines 606-640: the change of the primary pool.
change_primary_pool(c0, primary_pool, users_order, shares_order, snapshot_name, leaves_partial) ==
    IF c0.err # "none" \/ primary_pool = "None" \/ primary_pool = c0.w.data.primary_pool
    THEN c0
    ELSE state_set(
             move_shares(
                 move_users(
                     Then(Run(c0, TRUE, c0.w),            \* zpool list
                          LAMBDA x : IF primary_pool \notin list_pools(x.w)
                                     THEN Raise(x, "StateItemNotFoundError") ELSE x),
                     users_order, c0.w.data.primary_pool, primary_pool, snapshot_name,
                     leaves_partial),
                 shares_order, c0.w.data.primary_pool, primary_pool, snapshot_name,
                 leaves_partial),
             "primary_pool", primary_pool)

\* sorted(list(current_pools)) on the pool names used here.
PoolOrder == <<"archive", "backup", "tank">>

sorted(pools) == SelectSeq(PoolOrder, LAMBDA p : p \in pools)

\* Lines 645-647: every pool to add is looked up in zpool list.
RECURSIVE check_pools(_, _)
check_pools(c, add_pools) ==
    IF c.err # "none" \/ add_pools = <<>> THEN c
    ELSE check_pools(Then(Run(c, TRUE, c.w),
                          LAMBDA x : IF Head(add_pools) \notin list_pools(x.w)
                                     THEN Raise(x, "StateItemNotFoundError") ELSE x),
                     Tail(add_pools))

\* Lines 642-648.
add_secondary_pools(c, add_pools) ==
    IF c.err # "none" \/ add_pools = <<>> THEN c
    ELSE Then(check_pools(c, add_pools),
              LAMBDA x : state_set(x, "secondary_pools",
                             sorted(Range(x.w.data.secondary_pools) \cup Range(add_pools))))

PoolInUse_Never(w, remove_pools) == FALSE

\* Lines 652-654: some share record is on a pool to remove.
PoolInUse(w, remove_pools) ==
    \E n \in DOMAIN w.data.shares : w.data.shares[n].dataset.pool \in Range(remove_pools)

PoolInUseError == "SmbZfsError: pool is used by a share"

\* Lines 650-660.
remove_secondary_pools(c, remove_pools) ==
    IF c.err # "none" \/ remove_pools = <<>> THEN c
    ELSE IF PoolInUse(c.w, remove_pools) THEN Raise(c, PoolInUseError)
    ELSE state_set(c, "secondary_pools",
                   sorted(Range(c.w.data.secondary_pools) \ Range(remove_pools)))

\* Lines 662-673: one of the simple updates, for an argument that was given.
simple_update(c, key, given, value) ==
    IF c.err # "none" \/ ~given THEN c
    ELSE state_set(c, key, IF key = "default_home_quota" /\ lower(value) = "none"
                           THEN "none" ELSE value)

RECURSIVE add_shares_to_conf(_, _)
add_shares_to_conf(c, order) ==
    IF c.err # "none" \/ order = <<>> THEN c
    ELSE add_shares_to_conf(add_share_to_conf(c, Head(order), c.w.data.shares[Head(order)]),
                            Tail(order))

\* Lines 662-673: the four simple updates.
simple_updates(c, server_name, workgroup, macos_optimized, default_home_quota) ==
    simple_update(
        simple_update(
            simple_update(
                simple_update(c, "server_name", server_name # "None", server_name),
                "workgroup", workgroup # "None", workgroup),
            "macos_optimized", macos_optimized # <<>>,
            IF macos_optimized # <<>> THEN macos_optimized[1] ELSE FALSE),
        "default_home_quota", default_home_quota # "None", default_home_quota)

\* Lines 675-688: the Samba config is written again from the store, when the
\* primary pool or a simple value has changed.
update_config(c, config_needs_update, shares_order) ==
    IF c.err # "none" \/ ~config_needs_update THEN c
    ELSE reload_samba(test_samba_config(
             add_shares_to_conf(list_shares(create_smb_conf(c), shares_order),
                                shares_order)))

modify_setup(c0, primary_pool, add_pools, remove_pools, server_name, workgroup, macos_optimized, default_home_quota, users_order, shares_order, snapshot_name, leaves_partial) ==
    IF ~is_initialized(c0.w) THEN Raise(c0, "NotInitializedError")
    ELSE restore_state(
             update_config(
                 simple_updates(
                     remove_secondary_pools(
                         add_secondary_pools(
                             change_primary_pool(c0, primary_pool, users_order,
                                                 shares_order, snapshot_name,
                                                 leaves_partial),
                             add_pools),
                         remove_pools),
                     server_name, workgroup, macos_optimized, default_home_quota),
                 \/ primary_pool # "None" /\ primary_pool # c0.w.data.primary_pool
                 \/ server_name # "None" \/ workgroup # "None"
                 \/ macos_optimized # <<>> \/ default_home_quota # "None",
                 shares_order),
             get_data_copy(c0.w))

-----------------------------------------------------------------------------
(* SmbZfsManager.remove.  The deletions of OS users and groups are logged   *)
(* in the trace of the call.                                                *)

Deleted(kind, name) ==
    CASE kind = "user" /\ name = "alice" -> "userdel alice"
      [] kind = "group" /\ name = "smb_users" -> "groupdel smb_users"
      [] kind = "group" /\ name = "eng" -> "groupdel eng"
      [] OTHER -> "deleted"

\* Lines 764-768: the users of the store, in the order of the dict.
RECURSIVE remove_users(_, _)
remove_users(c, order) ==
    IF c.err # "none" \/ order = <<>> THEN c
    ELSE remove_users(
             Then(delete_samba_user(c, Head(order)),
                  LAMBDA x : IF user_exists(x.w, Head(order))
                             THEN Log(delete_system_user(x, Head(order)),
                                      Deleted("user", Head(order)))
                             ELSE x),
             Tail(order))

\* Lines 769-771: the groups of the store, in the order of the dict.
RECURSIVE remove_groups(_, _)
remove_groups(c, order) ==
    IF c.err # "none" \/ order = <<>> THEN c
    ELSE remove_groups(
             IF group_exists(c.w, Head(order))
             THEN Log(delete_system_group(c, Head(order)), Deleted("group", Head(order)))
             ELSE c,
             Tail(order))

\* Lines 774-776 and 777-779: the datasets of the records of a category.
RECURSIVE remove_datasets(_, _, _)
remove_datasets(c, category, order) ==
    IF c.err # "none" \/ order = <<>> THEN c
    ELSE remove_datasets(
             IF "dataset" \in DOMAIN c.w.data[category][Head(order)]
             THEN zfs_destroy_dataset(c, c.w.data[category][Head(order)].dataset.name)
             ELSE c,
             category, Tail(order))

remove_data_Skipped(c, primary_pool, users_order, shares_order) == c

\* Lines 773-783.
remove_data(c, primary_pool, users_order, shares_order) ==
    Then(Then(remove_datasets(remove_datasets(c, "shares", shares_order),
                              "users", users_order),
              LAMBDA x : zfs_destroy_dataset(x, <<primary_pool, "homes">>)),
         LAMBDA x : restore_smb_conf(x))

\* Lines 785-788.
remove_services_and_files(c) ==
    delete_state_file(restore_avahi_conf(disable_services(stop_services(c))))

remove(c0, delete_data, delete_users_and_groups, users_order, groups_order, shares_order) ==
    IF ~is_initialized(c0.w) THEN c0
    ELSE remove_services_and_files(
             Then(Then(list_items(list_items(c0, "users", users_order, shares_order),
                                  "shares", users_order, shares_order),
                       LAMBDA x : IF delete_users_and_groups
                                  THEN remove_groups(remove_users(x, users_order),
                                                     groups_order)
                                  ELSE x),
                  LAMBDA x : IF delete_data
                             THEN remove_data(x, c0.w.data.primary_pool, users_order,
                                              shares_order)
                             ELSE x))

-----------------------------------------------------------------------------
(* The state after the construction of the manager on a fresh host: the    *)
(* constructor of StateManager writes the initial state file and loads it. *)

NoCall ==
    [op |-> "none", args |-> <<>>, err |-> "none", pre |-> <<>>, n |-> 0,
     rb |-> <<>>, rolled |-> <<>>, rb_failed |-> {}, trigger |-> "none",
     restore |-> "none", tr |-> <<>>, hit |-> FALSE]

InitEngine ==
    /\ data = initial_state
    /\ file = initial_state
    /\ os_users = ("root" :> [shell |-> "/bin/bash"])
    /\ os_groups = ("root" :> {})
    /\ samba_users = EmptyFn
    /\ conf = no_conf
    /\ last = NoCall
    /\ calls = 0
    /\ faulty = 0

-----------------------------------------------------------------------------
(* The specification of one ZFS host on which move_dataset is called again *)
(* and again, with the steps of a call as actions.                         *)

MoveSources == {<<"tank", "shares", "docs">>, <<"tank", "homes", "bob">>}

MovePools == {"tank", "archive", "backup"}

DataOf(d) == [data |-> d, quota |-> "none"]

InitZfs ==
    /\ \E with_dest \in BOOLEAN :
         datasets =
            LET base == (<<"tank">> :> DataOf("empty")) @@ (<<"archive">> :> DataOf("empty"))
                        @@ (<<"tank", "shares">> :> DataOf("empty"))
                        @@ (<<"tank", "shares", "docs">> :> DataOf("A"))
            IN  IF with_dest
                THEN base @@ (<<"archive", "shares">> :> DataOf("empty"))
                          @@ (<<"archive", "shares", "docs">> :> DataOf("B"))
                ELSE base
    /\ snapshots = EmptyFn

InitMove == InitZfs /\ mv = MvIdle /\ InitEngine

Apply(r) ==
    /\ mv' = r.m /\ datasets' = r.z.ds /\ snapshots' = r.z.sn
    /\ UNCHANGED engine_vars

Move_Begin ==
    /\ mv.pc = "idle"
    /\ \E dataset_path \in MoveSources, new_pool \in MovePools, ts \in SnapshotNames :
          mv' = move_begin(Z, dataset_path, new_pool, ts)
    /\ UNCHANGED <<zfs_vars, engine_vars>>

Move_Validate ==
    /\ mv.pc = "validate"
    /\ \E used \in 0..MaxBytes, available \in 0..MaxBytes :
          Apply(move_validate(mv, Z, used, available))

Move_CreateParents ==
    /\ mv.pc = "parents"
    /\ \E fail_at \in 0..(Len(mv.dataset_path) - 2) :
          Apply(move_create_parents(mv, Z, fail_at))

Move_CheckDest ==
    /\ mv.pc = "check_dest"
    /\ Apply(move_check_dest(mv, Z))

Move_Snapshot ==
    /\ mv.pc = "snapshot"
    /\ \E ok \in BOOLEAN : Apply(move_snapshot(mv, Z, ok))

Move_SendRecv ==
    /\ mv.pc = "send_recv"
    /\ \E guid \in Guids, ok \in BOOLEAN, leaves_partial \in BOOLEAN :
          Apply(move_send_recv(mv, Z, guid, ok, leaves_partial))

Move_ReadGuids ==
    /\ mv.pc = "read_guids"
    /\ \E ok_source \in BOOLEAN, ok_dest \in BOOLEAN :
          Apply(move_read_guids(mv, Z, ok_source, ok_dest))

Move_Verify ==
    /\ mv.pc = "verify"
    /\ Apply(move_verify(mv, Z))

Move_DestroySource ==
    /\ mv.pc = "destroy_source"
    /\ \E ok \in BOOLEAN : Apply(move_destroy_source(mv, Z, ok))

Move_DestroyDestSnapshot ==
    /\ mv.pc = "destroy_dest_snapshot"
    /\ \E ok \in BOOLEAN : Apply(move_destroy_dest_snapshot(mv, Z, ok))

Move_Except ==
    /\ mv.pc = "except"
    /\ \E ok_dest \in BOOLEAN, ok_snapshot \in BOOLEAN :
          Apply(move_except(mv, Z, ok_dest, ok_snapshot))

Move_Return ==
    /\ mv.pc = "done"
    /\ mv' = MvIdle
    /\ UNCHANGED <<zfs_vars, engine_vars>>

NextMove ==
    \/ Move_Begin
    \/ Move_Validate
    \/ Move_CreateParents
    \/ Move_CheckDest
    \/ Move_Snapshot
    \/ Move_SendRecv
    \/ Move_ReadGuids
    \/ Move_Verify
    \/ Move_DestroySource
    \/ Move_DestroyDestSnapshot
    \/ Move_Except
    \/ Move_Return

SpecMove == InitMove /\ [][NextMove]_vars


-----------------------------------------------------------------------------
(* Claims about move_dataset, under SpecMove. *)

MvSourceExisted == dataset_exists(mv.pre, mv.dataset_path)

\* C1: a step of move_dataset destroys the source dataset only when the guids
\* of the source snapshot and of the received snapshot have both been read,
\* neither is the sentinel "0", and the two are equal.
C1_SourceDestroyedOnlyAfterVerification ==
    [][(/\ mv.pc # "idle"
        /\ dataset_exists(Z, mv.dataset_path)
        /\ mv.dataset_path \notin DOMAIN datasets')
       => /\ mv.source_guid \notin {"unread", "0"}
          /\ mv.dest_guid \notin {"unread", "0"}
          /\ mv.source_guid = mv.dest_guid]_vars

C1_Witness ==
    /\ mv.pc = "done" /\ mv.result = "ok"
    /\ MvSourceExisted
    /\ ~dataset_exists(Z, mv.dataset_path)
    /\ dataset_exists(Z, dest_dataset(mv))

\* C2: when move_dataset ends with the move-failed error the source dataset
\* still exists with the data it had, and no call on an existing source ends
\* with both the source and the destination absent.
C2_MoveFailedKeepsSource ==
    (mv.pc = "done" /\ MvSourceExisted)
    => /\ mv.result = "MoveFailed"
          => /\ dataset_exists(Z, mv.dataset_path)
             /\ datasets[mv.dataset_path] = mv.pre.ds[mv.dataset_path]
       /\ dataset_exists(Z, mv.dataset_path) \/ dataset_exists(Z, dest_dataset(mv))

C2_Witness ==
    /\ mv.pc = "done" /\ mv.result = "MoveFailed"
    /\ dataset_exists(Z, mv.dataset_path)

\* C3: when the snapshot, the send/receive or the guid verification fails (and
\* the clean-up commands themselves work), the call ends with the move-failed
\* error and neither the destination dataset nor the source snapshot exists.
C3_FailureCleansUp ==
    (/\ mv.pc = "done"
     /\ mv.failed \in {"snapshot", "send_recv", "verify"}
     /\ ~mv.cleanup_failed
     /\ ~snapshot_exists(mv.pre, source_snapshot(mv)))
    => /\ mv.result = "MoveFailed"
       /\ ~dataset_exists(Z, dest_dataset(mv))
       /\ ~snapshot_exists(Z, source_snapshot(mv))

\* C4: when the source uses more bytes than the destination pool has
\* available, the call ends with the not-enough-space error and ZFS is as it
\* was at the call: no dataset created, no snapshot taken, nothing destroyed.
C4_NoSpaceBeforeAnyChange ==
    (/\ mv.pc \notin {"idle", "validate"}
     /\ mv.required_bytes > mv.available_bytes)
    => /\ mv.pc = "done"
       /\ mv.result = "NotEnoughSpace"
       /\ Z = mv.pre

C4_Witness ==
    /\ mv.pc = "done" /\ mv.result = "NotEnoughSpace"
    /\ mv.required_bytes > mv.available_bytes

\* C5: when the destination dataset exists at the call, the call takes no
\* snapshot, leaves the source, the destination and everything below them as
\* they were, and ends with an error.
C5_ExistingDestinationNeverTouched ==
    (mv.pc # "idle" /\ dataset_exists(mv.pre, dest_dataset(mv)))
    => /\ snapshots = mv.pre.sn
       /\ \A d \in DOMAIN mv.pre.ds :
             (IsPrefix(dest_dataset(mv), d) \/ IsPrefix(mv.dataset_path, d))
             => dataset_exists(Z, d) /\ datasets[d] = mv.pre.ds[d]
       /\ mv.pc = "done" => mv.result # "ok"

C5_Witness ==
    /\ mv.pc = "done" /\ mv.result = "DestinationExists"
    /\ dest_dataset(mv) # mv.dataset_path
    /\ MvSourceExisted

-----------------------------------------------------------------------------
(* The specification of the engine: calls of the manager, one after the    *)
(* other, each with the faults the environment injects into it.            *)

Users == {"alice"}

GroupArgs == {<<>>, <<"eng">>}

\* The faults of one call whose body has at most k fallible steps: one failing
\* step of the body; or a failure of the body's last step or of its input,
\* together with one failing rollback action or a failing restore.
MaxRollback == 3

NoFaults == <<0, 0, FALSE>>

FaultChoices(k) ==
    {<<f, 0, FALSE>> : f \in 0..k}
    \cup {<<f, r, FALSE>> : f \in {0, k}, r \in 1..MaxRollback}
    \cup {<<f, 0, TRUE>> : f \in {0, k}}

\* The faults the environment may inject into a call that does something.
Faults(k, active) ==
    IF active /\ faulty < MaxFaultyCalls THEN FaultChoices(k) ELSE {NoFaults}

\* The arguments tried: all of S, or one of them for a call that is refused
\* whatever they are.
Args(S, active) == IF active THEN S ELSE {CHOOSE x \in S : TRUE}

Ctx(faults) == Begin(W, faults[1], faults[2], faults[3])

InitHost ==
    /\ datasets = (<<"tank">> :> DataOf("empty")) @@ (<<"archive">> :> DataOf("empty"))
    /\ snapshots = EmptyFn

Init == InitHost /\ mv = MvIdle /\ InitEngine

\* The call returns or raises: the world is what the handler left.
Return(op, args, c) ==
    /\ data' = c.w.data
    /\ file' = c.w.file
    /\ os_users' = c.w.os_users
    /\ os_groups' = c.w.os_groups
    /\ samba_users' = c.w.samba_users
    /\ conf' = c.w.conf
    /\ datasets' = c.w.zfs.ds
    /\ snapshots' = c.w.zfs.sn
    /\ last' = [op |-> op, args |-> args, err |-> c.err, pre |-> W, n |-> c.n,
                rb |-> c.rb, rolled |-> c.rolled, rb_failed |-> c.rb_failed,
                trigger |-> c.trigger, restore |-> c.restore, tr |-> c.tr,
                hit |-> c.hit]
    /\ calls' = calls + 1
    /\ faulty' = IF c.hit THEN faulty + 1 ELSE faulty
    /\ UNCHANGED mv

\* A new invocation of the tool: the constructor loads the state file.  The
\* state is no longer the one the last call left.
NewProcess ==
    /\ data # file
    /\ data' = load(file)
    /\ file' = load(file)
    /\ last' = NoCall
    /\ UNCHANGED <<zfs_vars, mv, os_users, os_groups, samba_users, conf,
                   calls, faulty>>

Setup ==
    /\ calls < MaxCalls
    /\ \E primary_pool \in Args({"tank", "backup"}, ~data.initialized),
          secondary_pools \in Args({<<>>, <<"archive">>}, ~data.initialized),
          default_home_quota \in {"10G"},
          packages_installed \in Args({TRUE, FALSE}, ~data.initialized),
          faults \in Faults(16, ~data.initialized) :
          Return("setup",
                 [primary_pool |-> primary_pool, secondary_pools |-> secondary_pools],
                 setup(Ctx(faults), primary_pool, secondary_pools, "srv", "WORKGROUP",
                       FALSE, default_home_quota, packages_installed))

CreateUser ==
    /\ calls < MaxCalls
    /\ \E username \in Args(Users, data.initialized),
          allow_shell \in {FALSE},
          groups \in Args(GroupArgs, data.initialized),
          create_home \in Args({TRUE, FALSE}, data.initialized),
          faults \in Faults(12, data.initialized) :
          Return("create_user",
                 [username |-> username, allow_shell |-> allow_shell,
                  groups |-> groups, create_home |-> create_home],
                 create_user(Ctx(faults), username, allow_shell, groups, create_home))

DeleteUser ==
    /\ calls < MaxCalls
    /\ \E username \in Args(Users, data.initialized),
          delete_data \in Args({FALSE, TRUE}, data.initialized),
          faults \in Faults(4, data.initialized) :
          Return("delete_user", [username |-> username, delete_data |-> delete_data],
                 delete_user(Ctx(faults), username, delete_data))

GroupNames == {"eng"}

MemberArgs == {<<"alice">>, <<"alice", "ghost">>}

CreateGroup ==
    /\ calls < MaxCalls
    /\ \E groupname \in Args(GroupNames, data.initialized),
          members \in Args(MemberArgs, data.initialized),
          faults \in Faults(3, data.initialized) :
          Return("create_group", [groupname |-> groupname, members |-> members],
                 create_group(Ctx(faults), groupname, members))

DeleteGroup ==
    /\ calls < MaxCalls
    /\ \E groupname \in Args(GroupNames \cup {"smb_users"}, data.initialized),
          faults \in Faults(2, data.initialized) :
          Return("delete_group", [groupname |-> groupname],
                 delete_group(Ctx(faults), groupname))

ShareNames == {"docs", "media"}

DatasetPaths == {<<"shares", "docs">>, <<"homes", "alice">>}

ValidUsersArgs == {"None", <<(<<"@", "smb_users">>), (<<"alice">>)>>}

CreateShare ==
    /\ calls < MaxCalls
    /\ \E name \in Args(ShareNames, data.initialized),
          dataset_path \in Args(DatasetPaths, data.initialized),
          valid_users \in Args(ValidUsersArgs, data.initialized),
          pool \in Args({"None", "archive"}, data.initialized),
          faults \in Faults(7, data.initialized) :
          Return("create_share",
                 [name |-> name, dataset_path |-> dataset_path,
                  valid_users |-> valid_users, pool |-> pool],
                 create_share(Ctx(faults), name, dataset_path, "root", "smb_users",
                              "0775", "", valid_users, "None", pool))

DeleteShare ==
    /\ calls < MaxCalls
    /\ \E name \in Args(ShareNames, data.initialized),
          delete_data \in Args({FALSE, TRUE}, data.initialized),
          faults \in Faults(4, data.initialized) :
          Return("delete_share", [name |-> name, delete_data |-> delete_data],
                 delete_share(Ctx(faults), name, delete_data))

\* The arguments of modify_share: one change at a time, or a rename with a
\* pool change.
ModifyShareArgs ==
    LET none == [name |-> "None", pool |-> "None", quota |-> "None",
                 valid_users |-> "None", read_only |-> <<>>]
    IN  << [none EXCEPT !.name = "media"], [none EXCEPT !.name = "Docs"],
           [none EXCEPT !.pool = "tank"], [none EXCEPT !.pool = "archive"],
           [none EXCEPT !.quota = "5G"], [none EXCEPT !.read_only = <<TRUE>>],
           [none EXCEPT !.valid_users = <<(<<"alice">>)>>],
           [none EXCEPT !.name = "media", !.pool = "archive"] >>

ModifyShare ==
    /\ calls < MaxCalls
    /\ \E share_name \in Args(ShareNames, data.initialized),
          i \in Args(DOMAIN ModifyShareArgs, data.initialized /\ data.shares # EmptyFn),
          snapshot_name \in Args(SnapshotNames, FALSE),
          faults \in Faults(8, data.initialized /\ data.shares # EmptyFn) :
          \E leaves_partial \in Args({FALSE, TRUE},
                                      ModifyShareArgs[i].pool # "None" /\ faults[1] # 0) :
          LET a == ModifyShareArgs[i] IN
          Return("modify_share", [share_name |-> share_name] @@ a,
                 modify_share(Ctx(faults), share_name, a.name, a.pool, a.quota, "None",
                              "None", "None", "None", a.valid_users, a.read_only,
                              <<>>, snapshot_name, leaves_partial))

\* The orders in which a dict with the keys S may hold them.
RECURSIVE Orders(_)
Orders(S) ==
    IF S = {} THEN {<<>>}
    ELSE UNION {{<<x>> \o o : o \in Orders(S \ {x})} : x \in S}

\* The arguments of modify_setup: one change at a time, or pools to add with
\* a pool to remove.
ModifySetupArgs ==
    LET none == [primary_pool |-> "None", add_pools |-> <<>>, remove_pools |-> <<>>,
                 server_name |-> "None"]
    IN  << [none EXCEPT !.primary_pool = "archive"], [none EXCEPT !.primary_pool = "backup"],
           [none EXCEPT !.add_pools = <<"archive">>],
           [none EXCEPT !.remove_pools = <<"archive">>],
           [none EXCEPT !.server_name = "nas"],
           [none EXCEPT !.add_pools = <<"tank">>, !.remove_pools = <<"archive">>] >>

ModifySetup ==
    /\ calls < MaxCalls
    /\ \E i \in Args(DOMAIN ModifySetupArgs, data.initialized),
          users_order \in Orders(DOMAIN data.users),
          snapshot_name \in Args(SnapshotNames, FALSE),
          faults \in Faults(10, data.initialized) :
          \E shares_order \in Args(Orders(DOMAIN data.shares),
                                    ModifySetupArgs[i].primary_pool # "None"),
             leaves_partial \in Args({FALSE, TRUE},
                                      ModifySetupArgs[i].primary_pool # "None"
                                          /\ faults[1] # 0) :
          LET a == ModifySetupArgs[i] IN
          Return("modify_setup", a,
                 modify_setup(Ctx(faults), a.primary_pool, a.add_pools, a.remove_pools,
                              a.server_name, "None", <<>>, "None", users_order,
                              shares_order, snapshot_name, leaves_partial))

Next ==
    \/ ModifySetup
    \/ ModifyShare
    \/ NewProcess
    \/ Setup
    \/ CreateUser
    \/ DeleteUser
    \/ CreateGroup
    \/ DeleteGroup
    \/ CreateShare
    \/ DeleteShare

Spec == Init /\ [][Next]_vars

-----------------------------------------------------------------------------
(* The account operations: the engine calls that work on users, groups and  *)
(* their membership, with the read-only calls.                              *)

\* The arguments of modify_group: nothing, one list, or both, with the
\* unknown user ghost at each position.
ModifyGroupArgs ==
    << [add_users |-> <<>>, remove_users |-> <<>>],
       [add_users |-> <<"alice">>, remove_users |-> <<>>],
       [add_users |-> <<>>, remove_users |-> <<"alice">>],
       [add_users |-> <<"alice", "ghost">>, remove_users |-> <<>>],
       [add_users |-> <<"ghost", "alice">>, remove_users |-> <<>>],
       [add_users |-> <<>>, remove_users |-> <<"alice", "ghost">>],
       [add_users |-> <<"alice">>, remove_users |-> <<"ghost">>] >>

ModifyGroup ==
    /\ calls < MaxCalls
    /\ \E groupname \in Args(GroupNames \cup {"smb_users"}, data.initialized),
          i \in Args(DOMAIN ModifyGroupArgs, data.initialized),
          faults \in Faults(3, data.initialized) :
          LET a == ModifyGroupArgs[i] IN
          Return("modify_group", [groupname |-> groupname] @@ a,
                 modify_group(Ctx(faults), groupname, a.add_users, a.remove_users))

ModifyHome ==
    /\ calls < MaxCalls
    /\ \E username \in Args(Users, data.initialized),
          quota \in Args({"20G", "NONE"}, data.initialized),
          faults \in Faults(2, data.initialized) :
          Return("modify_home", [username |-> username, quota |-> quota],
                 modify_home(Ctx(faults), username, quota))

ChangePassword ==
    /\ calls < MaxCalls
    /\ \E username \in Args(Users, data.initialized),
          faults \in Faults(1, data.initialized) :
          Return("change_password", [username |-> username],
                 change_password(Ctx(faults), username))

ListItems ==
    /\ calls < MaxCalls
    /\ \E category \in Args({"users", "shares", "pools", "bogus"}, data.initialized),
          users_order \in Orders(DOMAIN data.users),
          shares_order \in Args(Orders(DOMAIN data.shares), data.initialized),
          faults \in Faults(2, data.initialized) :
          Return("list_items", [category |-> category],
                 list_items(Ctx(faults), category, users_order, shares_order))

GetState ==
    /\ calls < MaxCalls
    /\ Return("get_state", <<>>, get_state(Ctx(NoFaults)))

NextAccounts ==
    \/ NewProcess
    \/ Setup
    \/ CreateUser
    \/ DeleteUser
    \/ CreateGroup
    \/ DeleteGroup
    \/ ModifyGroup
    \/ ModifyHome
    \/ ChangePassword
    \/ ListItems
    \/ GetState

SpecAccounts == Init /\ [][NextAccounts]_vars

\* Every operation of the engine but remove.
NextAll ==
    \/ NewProcess
    \/ Setup
    \/ CreateUser
    \/ DeleteUser
    \/ CreateGroup
    \/ DeleteGroup
    \/ ModifyGroup
    \/ CreateShare
    \/ DeleteShare
    \/ ModifyShare
    \/ ModifySetup
    \/ ModifyHome
    \/ ChangePassword
    \/ ListItems
    \/ GetState

SpecAll == Init /\ [][NextAll]_vars

-----------------------------------------------------------------------------
(* The teardown: remove after the calls that set the system up and fill it. *)

\* The order of the dict of the groups: setup stores the record of smb_users
\* before any group can be created and nothing deletes it, so that it comes
\* first; rest is the order of the other groups.
groups_order(d, rest) ==
    (IF "smb_users" \in DOMAIN d.groups THEN <<"smb_users">> ELSE <<>>) \o rest

Remove ==
    /\ calls < MaxCalls
    /\ \E delete_data \in Args(BOOLEAN, data.initialized),
          delete_users_and_groups \in Args(BOOLEAN, data.initialized),
          users_order \in Orders(DOMAIN data.users),
          rest \in Orders(DOMAIN data.groups \ {"smb_users"}),
          shares_order \in Orders(DOMAIN data.shares),
          faults \in Faults(11, data.initialized) :
          Return("remove",
                 [delete_data |-> delete_data,
                  delete_users_and_groups |-> delete_users_and_groups],
                 remove(Ctx(faults), delete_data, delete_users_and_groups,
                        users_order, groups_order(data, rest), shares_order))

NextRemove ==
    \/ NewProcess
    \/ Setup
    \/ CreateUser
    \/ CreateGroup
    \/ CreateShare
    \/ Remove
    \/ GetState

SpecRemove == Init /\ [][NextRemove]_vars

-----------------------------------------------------------------------------
(* Claims about the transactional handlers, checked under Spec.            *)

\* The except branch of _transaction ran in the last call, every rollback
\* action it ran succeeded and the restored state was saved.
RolledBackCleanly ==
    /\ last.trigger # "none"
    /\ last.rb_failed = {}
    /\ last.restore = "saved"

\* C6: when a step of create_user fails after the transaction has begun, the
\* State Store, the OS users and groups, the Samba user database and the set
\* of ZFS datasets are after the error exactly what they were before the call.
C6_CreateUserFailureRestoresAll ==
    (last.op = "create_user" /\ RolledBackCleanly) =>
        /\ data = last.pre.data
        /\ os_users = last.pre.os_users
        /\ os_groups = last.pre.os_groups
        /\ samba_users = last.pre.samba_users
        /\ DOMAIN datasets = DOMAIN last.pre.zfs.ds

\* The last call was create_group for a new group name on an initialized
\* system, no command of it was failed by the environment, and member i is
\* the first that is not a known user; the members before it have accounts.
UnknownMemberAt(i) ==
    /\ last.op = "create_group"
    /\ ~last.hit
    /\ last.pre.data.initialized
    /\ last.args.groupname \notin DOMAIN last.pre.data.groups
    /\ last.args.groupname \notin DOMAIN last.pre.os_groups
    /\ i \in DOMAIN last.args.members
    /\ last.args.members[i] \notin DOMAIN last.pre.data.users
    /\ \A j \in 1..(i - 1) : /\ last.args.members[j] \in DOMAIN last.pre.data.users
                             /\ last.args.members[j] \in DOMAIN last.pre.os_users

\* C7: create_group with a member that is not a known user raises the
\* item-not-found error, leaves no OS group of that name and no group record,
\* and the OS memberships of the members processed before the unknown one
\* are what they were before the call.
C7_UnknownMemberLeavesNoGroup ==
    (\E i \in 1..2 : UnknownMemberAt(i)) =>
        /\ last.err = "StateItemNotFoundError"
        /\ last.args.groupname \notin DOMAIN os_groups
        /\ last.args.groupname \notin DOMAIN data.groups
        /\ last.args.groupname \notin DOMAIN file.groups
        /\ os_groups = last.pre.os_groups

C7_Witness ==
    /\ UnknownMemberAt(2)
    /\ last.args.members = <<"alice", "ghost">>
    /\ last.err = "StateItemNotFoundError"
    /\ last.rolled = <<Action("delete_system_group", last.args.groupname)>>

StanzaNames == {conf.stanzas[i].name : i \in DOMAIN conf.stanzas}

\* C8: a create_share call that fails after its transaction has begun leaves
\* the State Store without the share record, the Samba config without a
\* stanza of that name and the set of ZFS datasets as it was before the call.
C8_CreateShareFailureRestoresAll ==
    (last.op = "create_share" /\ RolledBackCleanly) =>
        /\ last.args.name \notin DOMAIN data.shares
        /\ last.args.name \notin StanzaNames
        /\ DOMAIN datasets = DOMAIN last.pre.zfs.ds

\* C9: when a step inside a transaction fails, the registered rollback
\* actions run in the reverse of their registration order, each of them is
\* attempted, the State Store is restored to its snapshot and persisted, and
\* the error raised to the caller is the triggering error.
C9_RollbackThenRestoreThenOriginalError ==
    (last.trigger # "none") =>
        /\ last.rolled = Reverse(last.rb)
        /\ data = last.pre.data
        /\ file = last.pre.data
        /\ last.err = last.trigger

StanzaCount(name) == Cardinality({i \in DOMAIN conf.stanzas : conf.stanzas[i].name = name})

\* C10: after every successful mutating call the Samba config holds exactly
\* one stanza for each share of the State Store and no stanza for any other
\* name.
C10_OneStanzaPerShare ==
    (last.op # "none" /\ last.err = "none") =>
        /\ \A name \in DOMAIN data.shares : StanzaCount(name) = 1
        /\ StanzaNames \subseteq DOMAIN data.shares

-----------------------------------------------------------------------------
(* Claims about the invariants of the store, checked under SpecAll, Spec    *)
(* and SpecAccounts.                                                        *)

\* C11: in every reachable state, every dataset name stored in a user record
\* or in a share record names a ZFS dataset that exists.
C11_RecordDatasetsExist ==
    /\ \A u \in DOMAIN data.users :
           "dataset" \in DOMAIN data.users[u] =>
               data.users[u].dataset.name \in DOMAIN datasets
    /\ \A n \in DOMAIN data.shares : data.shares[n].dataset.name \in DOMAIN datasets

\* The pools the store d manages.
ManagedPools(d) == {d.primary_pool} \cup Range(d.secondary_pools)

\* The last call was a create_share of a new share, or a modify_share of an
\* existing one, whose target pool is not a managed pool.
UnmanagedPoolCall ==
    /\ last.op \in {"create_share", "modify_share"}
    /\ last.pre.data.initialized
    /\ last.args.pool # "None"
    /\ last.args.pool \notin ManagedPools(last.pre.data)
    /\ last.op = "create_share" => last.args.name \notin DOMAIN last.pre.data.shares
    /\ last.op = "modify_share" => last.args.share_name \in DOMAIN last.pre.data.shares

\* The last call left the store, the state file, the OS, Samba and ZFS as
\* they were.
NoSideEffect ==
    /\ data = last.pre.data
    /\ file = last.pre.file
    /\ os_users = last.pre.os_users
    /\ os_groups = last.pre.os_groups
    /\ samba_users = last.pre.samba_users
    /\ conf = last.pre.conf
    /\ datasets = last.pre.zfs.ds
    /\ snapshots = last.pre.zfs.sn

\* C12: in every reachable state the pool of every share record, in the store
\* and in the state file, is the primary pool or a secondary pool; and a
\* create_share or modify_share with another target pool is rejected and
\* changes nothing.
C12_SharePoolsManaged ==
    /\ \A n \in DOMAIN data.shares : data.shares[n].dataset.pool \in ManagedPools(data)
    /\ \A n \in DOMAIN file.shares : file.shares[n].dataset.pool \in ManagedPools(file)
    /\ UnmanagedPoolCall => (last.err # "none" /\ NoSideEffect)

\* The last call was a modify_setup with pools to remove, on an initialized
\* system.
RemoveCall ==
    /\ last.op = "modify_setup"
    /\ last.pre.data.initialized
    /\ last.args.remove_pools # <<>>

\* Some share record of the store d is on one of the pools.
ShareOnPool(d, pools) ==
    \E name \in DOMAIN d.shares : d.shares[name].dataset.pool \in Range(pools)

\* Before the call some share record was on a pool of the removal list, the
\* state file held the store, and no command or write fails in the call.
RemoveReferenced ==
    /\ RemoveCall
    /\ ShareOnPool(last.pre.data, last.args.remove_pools)
    /\ last.pre.data = last.pre.file
    /\ ~last.hit

TokenResolves(item) ==
    IF Head(item) = "@" THEN lstrip_at(item)[1] \in DOMAIN os_groups
    ELSE item[1] \in DOMAIN os_users

\* C14: after a successful call in a run without any failing command, every
\* token of the valid_users of every share record names an OS group or an OS
\* user that exists.
C14_ValidUsersResolve ==
    (last.op # "none" /\ last.err = "none" /\ faulty = 0) =>
        \A n \in DOMAIN data.shares :
            \A i \in DOMAIN data.shares[n].smb_config.valid_users :
                TokenResolves(data.shares[n].smb_config.valid_users[i])

\* The last call was delete_group("smb_users").
DeleteSmbUsersCall == last.op = "delete_group" /\ last.args.groupname = "smb_users"

\* The OS group smb_users with its members, and the records of the group in
\* the store and in the state file, are as before the last call.
SmbUsersKept ==
    /\ "smb_users" \in DOMAIN last.pre.os_groups =>
           /\ "smb_users" \in DOMAIN os_groups
           /\ os_groups["smb_users"] = last.pre.os_groups["smb_users"]
    /\ "smb_users" \in DOMAIN last.pre.data.groups =>
           /\ "smb_users" \in DOMAIN data.groups
           /\ data.groups["smb_users"] = last.pre.data.groups["smb_users"]
    /\ "smb_users" \in DOMAIN last.pre.file.groups =>
           /\ "smb_users" \in DOMAIN file.groups
           /\ file.groups["smb_users"] = last.pre.file.groups["smb_users"]

InitializedOps ==
    {"create_user", "delete_user", "create_group", "delete_group",
     "create_share", "delete_share", "modify_group", "modify_share",
     "modify_setup", "modify_home", "change_password", "get_state",
     "list_items"}

\* The last call was one of them, on a store that is not initialized.
UninitializedCall == last.op \in InitializedOps /\ ~last.pre.data.initialized

\* C16: on a store that is not initialized every operation other than setup
\* and remove raises the not-initialized error and leaves the store, the
\* state file, the OS, Samba, ZFS and the configuration as they were.
C16_NotInitializedRaises ==
    UninitializedCall => (last.err = "NotInitializedError" /\ NoSideEffect)

C16_Witness ==
    /\ UninitializedCall
    /\ last.op = "modify_home"
    /\ last.err = "NotInitializedError"
    /\ NoSideEffect

\* The last call was a create of a name that the store of an initialized
\* system already has in that category, or, for a user or a group, that the
\* OS already has.
CreateExistingCall ==
    /\ last.op \in {"create_user", "create_group", "create_share"}
    /\ last.pre.data.initialized
    /\ \/ /\ last.op = "create_user"
          /\ \/ last.args.username \in DOMAIN last.pre.data.users
             \/ last.args.username \in DOMAIN last.pre.os_users
       \/ /\ last.op = "create_group"
          /\ \/ last.args.groupname \in DOMAIN last.pre.data.groups
             \/ last.args.groupname \in DOMAIN last.pre.os_groups
       \/ /\ last.op = "create_share"
          /\ last.args.name \in DOMAIN last.pre.data.shares

\* C17: create_user, create_group and create_share of a name that is already
\* a record of the category, or (users, groups) already an OS user or group,
\* raise the item-exists error and change nothing.
C17_ExistingNameRaises ==
    CreateExistingCall => (last.err = "ItemExistsError" /\ NoSideEffect)

\* A user that the OS has and the store does not is created.
C17_Witness ==
    /\ CreateExistingCall
    /\ last.op = "create_user"
    /\ last.args.username \notin DOMAIN last.pre.data.users
    /\ last.err = "ItemExistsError"

\* The last call was modify_group on an initialized system, for a group that
\* has a record in the store.
ModifyGroupCall ==
    /\ last.op = "modify_group"
    /\ last.pre.data.initialized
    /\ last.args.groupname \in DOMAIN last.pre.data.groups

\* C18: modify_group on an existing group with no user to add and no user to
\* remove raises the missing-input error and changes nothing.
C18_NoInputRaises ==
    (ModifyGroupCall /\ last.args.add_users = <<>> /\ last.args.remove_users = <<>>)
        => (last.err = "MissingInput" /\ NoSideEffect)

C18_Witness ==
    /\ ModifyGroupCall
    /\ last.args.add_users = <<>>
    /\ last.args.remove_users = <<>>
    /\ last.args.groupname = "eng"
    /\ last.err = "MissingInput"
    /\ os_groups["eng"] = {"alice"}
    /\ data.groups["eng"].members = <<"alice">>

\* The members of the OS group of the name, none when there is no such group.
os_members(groups, groupname) ==
    IF groupname \in DOMAIN groups THEN groups[groupname] ELSE {}

\* C19: a modify_group that raises the item-not-found error for an unknown
\* user leaves the members of the record and of the OS group as they were.
C19_UnknownUserLeavesGroup ==
    (ModifyGroupCall /\ last.err = "StateItemNotFoundError") =>
        /\ data.groups[last.args.groupname] = last.pre.data.groups[last.args.groupname]
        /\ os_members(os_groups, last.args.groupname)
               = os_members(last.pre.os_groups, last.args.groupname)

\* The members of the record of the group are the managed users that are
\* members of the OS group of that name.
MembersInSync(groupname) ==
    Range(data.groups[groupname].members)
        = os_members(os_groups, groupname) \cap DOMAIN data.users

\* C20: after a successful call, in a run without a failing command, the
\* members of every group record, smb_users included, are the managed users
\* that are members of the OS group.
C20_MembersInSync ==
    (last.op # "none" /\ last.err = "none" /\ faulty = 0) =>
        \A groupname \in DOMAIN data.groups : MembersInSync(groupname)


------------------------------------------------------------------------------
(* Claims about modify_share, modify_setup, remove and the teardown         *)
(* primitives.                                                              *)

\* The last call was a modify_share of a share of the store, on an
\* initialized system.
ModifyShareCall ==
    /\ last.op = "modify_share"
    /\ last.pre.data.initialized
    /\ last.args.share_name \in DOMAIN last.pre.data.shares

\* The last call was a successful modify_share that asked for another pool
\* than the one of the share, and for no rename.
PoolChanged ==
    /\ ModifyShareCall
    /\ last.err = "none"
    /\ last.args.name = "None"
    /\ last.args.pool # "None"
    /\ last.args.pool # last.pre.data.shares[last.args.share_name].dataset.pool

\* C21: after a successful modify_share that changes the pool, the dataset of
\* the share is on the new pool at the same path with its data and is gone
\* from the old pool, the record in the store and in the state file describes
\* the new dataset, and the configuration has one stanza of the share, with
\* the new mount point as its path.
C21_PoolChangeMovesShare ==
    PoolChanged =>
        LET share_name == last.args.share_name
            old == last.pre.data.shares[share_name].dataset.name
            new == <<last.args.pool>> \o Tail(old)
        IN  /\ new \in DOMAIN datasets
            /\ datasets[new].data = last.pre.zfs.ds[old].data
            /\ old \notin DOMAIN datasets
            /\ \A d \in {data, file} :
                   /\ share_name \in DOMAIN d.shares
                   /\ d.shares[share_name].dataset.pool = last.args.pool
                   /\ d.shares[share_name].dataset.name = new
                   /\ d.shares[share_name].dataset.mount_point = new
            /\ StanzaCount(share_name) = 1
            /\ \A i \in DOMAIN conf.stanzas :
                   conf.stanzas[i].name = share_name => conf.stanzas[i].path = new

C21_Witness ==
    /\ PoolChanged
    /\ last.args.share_name = "docs"
    /\ last.args.pool = "archive"
    /\ <<"archive", "shares", "docs">> \in DOMAIN datasets
    /\ <<"tank", "shares", "docs">> \notin DOMAIN datasets


\* The last call was a modify_share that asked for a rename only and raised,
\* the dataset of the share existing before the call.
RenameRaised ==
    /\ ModifyShareCall
    /\ last.err # "none"
    /\ last.args.name # "None"
    /\ last.args.pool = "None"
    /\ last.pre.data.shares[last.args.share_name].dataset.name \in DOMAIN last.pre.zfs.ds

\* C22: when modify_share raises, after its rename of the dataset or before,
\* the dataset exists under its original name afterwards and the restored
\* record of the share refers to it.
C22_RenameIsReversed ==
    RenameRaised =>
        LET old == last.pre.data.shares[last.args.share_name].dataset.name
        IN  /\ old \in DOMAIN datasets
            /\ last.args.share_name \in DOMAIN data.shares
            /\ data.shares[last.args.share_name].dataset.name = old


\* The last call was a modify_share or a modify_setup that raised, on an
\* initialized system whose state file held the store when the call started.
ModifyRaised ==
    /\ last.op \in {"modify_share", "modify_setup"}
    /\ last.pre.data.initialized
    /\ last.pre.data = last.pre.file
    /\ last.err # "none"

\* C23: when modify_share or modify_setup raises, the state file afterwards
\* holds the store as it was when the call started.
C23_RaiseRestoresStore == ModifyRaised => file = last.pre.file


\* The last call was a successful modify_setup that asked for another primary
\* pool than the one of the store.
PrimaryChanged ==
    /\ last.op = "modify_setup"
    /\ last.pre.data.initialized
    /\ last.err = "none"
    /\ last.args.primary_pool # "None"
    /\ last.args.primary_pool # last.pre.data.primary_pool

\* The dataset of the record before the call is now on new_pool at the same
\* path and gone from its old place, and the record rec describes it.
MovedTo(before, rec, new_pool) ==
    LET new == <<new_pool>> \o Tail(before.dataset.name)
    IN  /\ new \in DOMAIN datasets
        /\ before.dataset.name \notin DOMAIN datasets
        /\ rec.dataset.name = new
        /\ rec.dataset.pool = new_pool
        /\ rec.dataset.mount_point = new

\* The dataset of the record is where it was and the record names it as
\* before.
NotMoved(before, rec) ==
    /\ rec.dataset.name = before.dataset.name
    /\ rec.dataset.pool = before.dataset.pool
    /\ rec.dataset.mount_point = before.dataset.mount_point
    /\ before.dataset.name \in DOMAIN last.pre.zfs.ds => before.dataset.name \in DOMAIN datasets

\* C24: after a successful change of the primary pool the store and the state
\* file have the new primary pool, every home and every share dataset of the
\* old primary pool has moved to the new one with its record, and the shares
\* of other pools are where they were.
C24_PrimaryChangeMovesAll ==
    PrimaryChanged =>
        LET old_pool == last.pre.data.primary_pool
            new_pool == last.args.primary_pool
            before == last.pre.data
        IN  \A d \in {data, file} :
                /\ d.primary_pool = new_pool
                /\ DOMAIN d.users = DOMAIN before.users
                /\ DOMAIN d.shares = DOMAIN before.shares
                /\ \A u \in DOMAIN before.users :
                       ("dataset" \in DOMAIN before.users[u]
                            /\ before.users[u].dataset.pool = old_pool)
                           => MovedTo(before.users[u], d.users[u], new_pool)
                /\ \A n \in DOMAIN before.shares :
                       IF before.shares[n].dataset.pool = old_pool
                       THEN MovedTo(before.shares[n], d.shares[n], new_pool)
                       ELSE NotMoved(before.shares[n], d.shares[n])

C24_Witness ==
    /\ PrimaryChanged
    /\ last.args.primary_pool = "archive"
    /\ "alice" \in DOMAIN data.users
    /\ "docs" \in DOMAIN data.shares
    /\ <<"archive", "homes", "alice">> \in DOMAIN datasets
    /\ <<"archive", "shares", "docs">> \in DOMAIN datasets


\* The last call was a remove on an initialized system that returned.
Removed ==
    /\ last.op = "remove"
    /\ last.pre.data.initialized
    /\ last.err = "none"

\* C25: after remove on an initialized system, whatever its flags, the
\* services have been stopped and disabled, the rendered Samba and Avahi
\* files and the state file are gone, and a manager constructed afterwards
\* reports a store that is not initialized.
C25_RemoveLeavesPreSetup ==
    Removed =>
        /\ "stop_services" \in Range(last.tr)
        /\ "disable_services" \in Range(last.tr)
        /\ ~conf.present
        /\ ~conf.avahi
        /\ file = NoFile
        /\ ~load(file).initialized


\* The names of the datasets of the records of a category before the last
\* call.
RecordDatasets(category) ==
    {last.pre.data[category][n].dataset.name :
        n \in {m \in DOMAIN last.pre.data[category] :
                  "dataset" \in DOMAIN last.pre.data[category][m]}}

\* C26: a remove that deletes users and groups and keeps the data deletes the
\* managed OS users and leaves every dataset and the share stanzas; a remove
\* that deletes the data and keeps users and groups destroys the share and
\* home datasets and the homes dataset of the primary pool, removes the share
\* stanzas, and leaves the OS users and groups.
C26_RemoveFlagsAreIndependent ==
    /\ (Removed /\ last.args.delete_users_and_groups /\ ~last.args.delete_data) =>
           /\ \A u \in DOMAIN last.pre.data.users :
                  u \notin DOMAIN os_users /\ u \notin DOMAIN samba_users
           /\ datasets = last.pre.zfs.ds
           /\ conf.stanzas = last.pre.conf.stanzas
    /\ (Removed /\ last.args.delete_data /\ ~last.args.delete_users_and_groups) =>
           /\ \A d \in RecordDatasets("shares") \cup RecordDatasets("users") :
                  d \notin DOMAIN datasets
           /\ <<last.pre.data.primary_pool, "homes">> \notin DOMAIN datasets
           /\ conf.stanzas = <<>>
           /\ os_users = last.pre.os_users
           /\ os_groups = last.pre.os_groups
           /\ samba_users = last.pre.samba_users

\* Users and groups are removed from a system with a user with a home and a
\* share.
C26_Witness ==
    /\ Removed
    /\ last.args.delete_users_and_groups
    /\ ~last.args.delete_data
    /\ "alice" \in DOMAIN last.pre.os_users
    /\ "alice" \notin DOMAIN os_users
    /\ <<"tank", "homes", "alice">> \in DOMAIN datasets
    /\ conf.stanzas # <<>>


\* The positions of the trace of the last call at which an event is logged.
Positions(event) == {i \in DOMAIN last.tr : last.tr[i] = event}

\* C27: when remove runs with delete_users_and_groups, the OS group smb_users
\* is deleted after every other managed group and after every managed user.
C27_SmbUsersDeletedLast ==
    (last.op = "remove" /\ last.pre.data.initialized
         /\ last.args.delete_users_and_groups) =>
        \A i \in Positions(Deleted("group", "smb_users")) :
            \A j \in Positions(Deleted("group", "eng"))
                         \cup Positions(Deleted("user", "alice")) : j < i


\* The events of the trace of a call that reload or restart Samba.
Reloads == {"reload_samba", "restart_services"}

\* C28: in every call of the engine, rollback actions included, each reload
\* (or restart) of Samba comes after a validation of the Samba config that
\* succeeded and that no write of the config file separates from the reload;
\* a validation that fails is not followed by a reload.
C28_ReloadFollowsValidation ==
    \A i \in DOMAIN last.tr :
        last.tr[i] \in Reloads =>
            \E j \in 1..(i - 1) :
                /\ last.tr[j] = "test_samba_config"
                /\ \A k \in (j + 1)..(i - 1) : last.tr[k] # "write_conf"

\* A create_share failed after the stanza was written, and its rollback
\* removed the stanza, validated and reloaded.
C28_Witness ==
    /\ last.op = "create_share"
    /\ last.err # "none"
    /\ \E i \in DOMAIN last.rolled : last.rolled[i].kind = "samba_rollback"
    /\ \E i \in DOMAIN last.tr :
           /\ last.tr[i] = "reload_samba"
           /\ i > 2
           /\ last.tr[i - 1] = "test_samba_config"
           /\ last.tr[i - 2] = "write_conf"
    /\ conf.stanzas = last.pre.conf.stanzas


\* The last call was a delete_user or a delete_share that returned.
DeleteCall == last.op \in {"delete_user", "delete_share"} /\ last.err = "none"

DeletedCategory == IF last.op = "delete_user" THEN "users" ELSE "shares"

DeletedName == IF last.op = "delete_user" THEN last.args.username ELSE last.args.name

\* The datasets named by the records of users and shares other than the
\* deleted one.
OtherDatasets ==
    UNION {{last.pre.data[cat][n].dataset.name :
               n \in {m \in DOMAIN last.pre.data[cat] :
                         /\ ~(cat = DeletedCategory /\ m = DeletedName)
                         /\ "dataset" \in DOMAIN last.pre.data[cat][m]}} :
           cat \in {"users", "shares"}}

Without(members, name) == [g \in DOMAIN members |-> members[g] \ {name}]

\* C29: a delete_user or delete_share that returns removes the record and the
\* OS/Samba account or the stanza; it leaves the dataset of the record when
\* delete_data is false and destroys it when delete_data is true; every other
\* user, group and share record, the OS entities of those records and their
\* datasets are as before the call.
C29_DeleteTouchesOnlyItsTarget ==
    DeleteCall =>
        LET rec == last.pre.data[DeletedCategory][DeletedName]
            user == IF last.op = "delete_user" THEN {DeletedName} ELSE {}
        IN  /\ DeletedName \notin DOMAIN data[DeletedCategory]
            /\ \A u \in user : u \notin DOMAIN os_users /\ u \notin DOMAIN samba_users
            /\ last.op = "delete_share" =>
                   \A i \in DOMAIN conf.stanzas : conf.stanzas[i].name # DeletedName
            /\ ("dataset" \in DOMAIN rec /\ rec.dataset.name \in DOMAIN last.pre.zfs.ds) =>
                   IF last.args.delete_data
                   THEN rec.dataset.name \notin DOMAIN datasets
                   ELSE /\ rec.dataset.name \in DOMAIN datasets
                        /\ datasets[rec.dataset.name] = last.pre.zfs.ds[rec.dataset.name]
            /\ \A cat \in {"users", "shares"} :
                   Drop(data[cat], IF cat = DeletedCategory THEN {DeletedName} ELSE {})
                       = Drop(last.pre.data[cat],
                              IF cat = DeletedCategory THEN {DeletedName} ELSE {})
            /\ data.groups = last.pre.data.groups
            /\ Drop(os_users, user) = Drop(last.pre.os_users, user)
            /\ Drop(samba_users, user) = Drop(last.pre.samba_users, user)
            /\ \A u \in IF user = {} THEN {""} ELSE user :
                   Without(os_groups, u) = Without(last.pre.os_groups, u)
            /\ SelectSeq(conf.stanzas, LAMBDA st : st.name # DeletedName)
                   = SelectSeq(last.pre.conf.stanzas,
                               LAMBDA st : last.op = "delete_user" \/ st.name # DeletedName)
            /\ \A d \in OtherDatasets :
                   d \in DOMAIN last.pre.zfs.ds =>
                       d \in DOMAIN datasets /\ datasets[d] = last.pre.zfs.ds[d]


-----------------------------------------------------------------------------
(* The teardown primitives of System and Zfs, called on their own on a host *)
(* that the engine has set up.                                              *)

TeardownFaults ==
    IF faulty < MaxFaultyCalls THEN {NoFaults, <<1, 0, FALSE>>} ELSE {NoFaults}

TeardownDatasets ==
    {<<"tank", "homes", "alice">>, <<"tank", "shares", "docs">>, <<"tank", "homes">>}

DeleteSystemUser ==
    /\ calls < MaxCalls
    /\ \E username \in Users, faults \in TeardownFaults :
          Return("delete_system_user", [name |-> username],
                 delete_system_user(Ctx(faults), username))

DeleteSystemGroup ==
    /\ calls < MaxCalls
    /\ \E groupname \in GroupNames \cup {"smb_users"}, faults \in TeardownFaults :
          Return("delete_system_group", [name |-> groupname],
                 delete_system_group(Ctx(faults), groupname))

DeleteSambaUser ==
    /\ calls < MaxCalls
    /\ \E username \in Users, faults \in TeardownFaults :
          Return("delete_samba_user", [name |-> username],
                 delete_samba_user(Ctx(faults), username))

DestroyDataset ==
    /\ calls < MaxCalls
    /\ \E dataset \in TeardownDatasets, faults \in TeardownFaults :
          Return("destroy_dataset", [name |-> dataset],
                 zfs_destroy_dataset(Ctx(faults), dataset))

NextTeardown ==
    \/ Setup
    \/ CreateUser
    \/ CreateGroup
    \/ CreateShare
    \/ DeleteSystemUser
    \/ DeleteSystemGroup
    \/ DeleteSambaUser
    \/ DestroyDataset

SpecTeardown == Init /\ [][NextTeardown]_vars

TeardownOps ==
    {"delete_system_user", "delete_system_group", "delete_samba_user", "destroy_dataset"}

\* The target of the last call of a teardown primitive existed before it.
TargetPresent ==
    CASE last.op = "delete_system_user" -> last.args.name \in DOMAIN last.pre.os_users
      [] last.op = "delete_system_group" -> last.args.name \in DOMAIN last.pre.os_groups
      [] last.op = "delete_samba_user" -> last.args.name \in DOMAIN last.pre.samba_users
      [] last.op = "destroy_dataset" -> last.args.name \in DOMAIN last.pre.zfs.ds

\* A teardown primitive called on a target that is not there returns and
\* changes nothing.
AbsentIsNoOp ==
    (last.op \in TeardownOps /\ ~TargetPresent) => (last.err = "none" /\ NoSideEffect)

\* A teardown primitive called again on the same name, right after a call on
\* it that returned, returns and changes nothing.
SecondCallIsNoOp ==
    (/\ last.op \in TeardownOps
     /\ last.err = "none"
     /\ calls' = calls + 1
     /\ last'.op = last.op
     /\ last'.args = last.args)
        => /\ last'.err = "none"
           /\ UNCHANGED <<data, file, os_users, os_groups, samba_users, conf,
                          datasets, snapshots>>

\* C30: delete_system_user, delete_system_group, delete_samba_user and
\* destroy_dataset are idempotent: the second of two calls in a row on the same
\* name never raises, and a call on an absent target is a no-op.
C30_TeardownIsIdempotent == []AbsentIsNoOp /\ [][SecondCallIsNoOp]_vars

\* The home dataset of alice is destroyed a second time: her record still
\* names it, the dataset was gone before the call.
C30_Witness ==
    /\ last.op = "destroy_dataset"
    /\ last.args.name = <<"tank", "homes", "alice">>
    /\ "alice" \in DOMAIN data.users
    /\ "dataset" \in DOMAIN data.users["alice"]
    /\ ~TargetPresent
    /\ last.err = "none"


-----------------------------------------------------------------------------
(* Claims about create_user, the listings, modify_group, modify_share,      *)
(* the datasets of the records, setup and the primary pool change.          *)

\* The last call was a create_user without shell access that returned.
CreatedUser ==
    /\ last.op = "create_user"
    /\ last.err = "none"
    /\ ~last.args.allow_shell

\* C31: after a create_user(name, allow_shell=false) that returns, the OS user
\* exists with the nologin shell and is a member of smb_users, the Samba
\* credentials exist and are enabled, and the store holds the record; with
\* create_home the dataset <primary pool>/homes/<name> exists and the record
\* names it; without create_home no dataset is created and the record has no
\* dataset field.
C31_CreateUserEffects ==
    CreatedUser =>
        LET name == last.args.username
            home == <<last.pre.data.primary_pool, "homes", name>>
        IN  /\ name \in DOMAIN os_users
            /\ os_users[name].shell = "/usr/sbin/nologin"
            /\ "smb_users" \in DOMAIN os_groups
            /\ name \in os_groups["smb_users"]
            /\ name \in DOMAIN samba_users
            /\ samba_users[name].enabled
            /\ name \in DOMAIN data.users
            /\ name \in DOMAIN file.users
            /\ file.users[name] = data.users[name]
            /\ IF last.args.create_home
               THEN /\ home \in DOMAIN datasets
                    /\ "dataset" \in DOMAIN file.users[name]
                    /\ file.users[name].dataset.name = home
               ELSE /\ datasets = last.pre.zfs.ds
                    /\ "dataset" \notin DOMAIN file.users[name]

\* alice is created with a home on the primary pool.
C31_Witness ==
    /\ CreatedUser
    /\ last.args.create_home
    /\ last.args.username = "alice"
    /\ <<"tank", "homes", "alice">> \notin DOMAIN last.pre.zfs.ds
    /\ <<"tank", "homes", "alice">> \in DOMAIN datasets
    /\ "alice" \in DOMAIN file.users


\* The quota persisted in a record of a store, "unset" for a record without one.
StoredQuota(store, category, name) ==
    IF "dataset" \in DOMAIN store[category][name]
    THEN store[category][name].dataset.quota
    ELSE "unset"

\* The value list_items shows for a dataset without a quota.
DisplayValue == "Not Set"

\* C32: the listings are read-only with respect to the store: whatever call
\* follows a list_items on the same manager, the quota persisted in every
\* user and share record is a value that was stored (a ZFS quota string,
\* "none" or unset), never the display value derived from live ZFS.
C32_ListingLeavesStoredQuota ==
    \A category \in {"users", "shares"} :
        \A name \in DOMAIN file[category] :
            StoredQuota(file, category, name) # DisplayValue


-----------------------------------------------------------------------------
(* Two invocations of the tool on the same state file.  The manager of the  *)
(* model keeps the store it loaded; another invocation is constructed,      *)
(* loads the file, runs one create_user and exits in the meantime.          *)

ConcurrentCreateUser ==
    /\ calls < MaxCalls
    /\ \E username \in Args(Users, file.initialized),
          create_home \in Args({FALSE, TRUE}, file.initialized) :
          LET c == create_user(Begin([W EXCEPT !.data = load(file)], 0, 0, FALSE),
                               username, FALSE, <<>>, create_home)
          IN  /\ data' = data
              /\ file' = c.w.file
              /\ os_users' = c.w.os_users
              /\ os_groups' = c.w.os_groups
              /\ samba_users' = c.w.samba_users
              /\ conf' = c.w.conf
              /\ datasets' = c.w.zfs.ds
              /\ snapshots' = c.w.zfs.sn
              /\ last' = [op |-> "create_user in another invocation",
                          args |-> [username |-> username, create_home |-> create_home],
                          err |-> c.err, pre |-> W, n |-> c.n, rb |-> c.rb,
                          rolled |-> c.rolled, rb_failed |-> c.rb_failed,
                          trigger |-> c.trigger, restore |-> c.restore, tr |-> c.tr,
                          hit |-> c.hit]
              /\ calls' = calls + 1
              /\ UNCHANGED <<faulty, mv>>

NextConcurrent ==
    \/ NewProcess
    \/ Setup
    \/ CreateUser
    \/ CreateGroup
    \/ CreateShare
    \/ ConcurrentCreateUser

SpecConcurrent == Init /\ [][NextConcurrent]_vars

\* The user records that another invocation persisted after this manager
\* loaded the store.
UnseenUsers == DOMAIN last.pre.file.users \ DOMAIN last.pre.data.users

\* C33: nothing protects two invocations on the same state file from each
\* other: a mutating call that returns rewrites the whole file from the store
\* its manager loaded, so the file then lacks every user record that another
\* invocation persisted in between, although the OS user exists.
C33_StaleWriterDropsRecord ==
    (last.op \in {"create_user", "create_group", "create_share"} /\ last.err = "none") =>
        \A u \in UnseenUsers : u \notin DOMAIN file.users /\ u \in DOMAIN os_users

\* create_user(alice) of one invocation and create_share(docs) of the other
\* both return; the file holds docs and has lost alice.
C33_Witness ==
    /\ last.op = "create_share"
    /\ last.err = "none"
    /\ "alice" \in UnseenUsers
    /\ "alice" \notin DOMAIN file.users
    /\ "alice" \in DOMAIN os_users
    /\ "docs" \in DOMAIN file.shares


\* The last call was a modify_group that returned.
ModifiedGroup == last.op = "modify_group" /\ last.err = "none"

\* C34: after a modify_group(g, add_users=A, remove_users=R) that returns,
\* the persisted members list of g is the sorted duplicate-free list of
\* (previous members + A) - R, every user of A outside R is a member of the
\* OS group g, and no user of R is a member of the OS group g, however the
\* user had joined it.
C34_ModifyGroupEffects ==
    ModifiedGroup =>
        LET g == last.args.groupname
            A == Range(last.args.add_users)
            R == Range(last.args.remove_users)
            previous == Range(last.pre.data.groups[g].members)
        IN  /\ file.groups[g].members = sorted_users((previous \cup A) \ R)
            /\ \A u \in A \ R : g \in DOMAIN os_groups /\ u \in os_groups[g]
            /\ \A u \in R : g \in DOMAIN os_groups => u \notin os_groups[g]


-----------------------------------------------------------------------------
(* modify_share called with an owner, a group or permissions, alone or      *)
(* together with a change that comes earlier in the handler.                *)

ModifyShareSystemArgs ==
    LET none == [name |-> "None", pool |-> "None", quota |-> "None", owner |-> "None",
                 group |-> "None", permissions |-> "None", valid_users |-> "None"]
    IN  << [none EXCEPT !.owner = "root"], [none EXCEPT !.group = "smb_users"],
           [none EXCEPT !.permissions = "700"],
           [none EXCEPT !.owner = "ghost"], [none EXCEPT !.group = "nogroup"],
           [none EXCEPT !.permissions = "9999"],
           [none EXCEPT !.pool = "backup", !.name = "media"],
           [none EXCEPT !.pool = "archive", !.owner = "ghost"],
           [none EXCEPT !.name = "media", !.permissions = "9999"],
           [none EXCEPT !.quota = "5G", !.group = "nogroup"],
           [none EXCEPT !.name = "media", !.valid_users = <<(<<"ghost">>)>>] >>

ModifyShareSystem ==
    /\ calls < MaxCalls
    /\ \E share_name \in Args(ShareNames, data.initialized),
          i \in Args(DOMAIN ModifyShareSystemArgs,
                     data.initialized /\ data.shares # EmptyFn),
          snapshot_name \in Args(SnapshotNames, FALSE),
          faults \in Faults(8, data.initialized /\ data.shares # EmptyFn) :
          LET a == ModifyShareSystemArgs[i] IN
          Return("modify_share", [share_name |-> share_name] @@ a,
                 modify_share(Ctx(faults), share_name, a.name, a.pool, a.quota, a.owner,
                              a.group, a.permissions, "None", a.valid_users, <<>>,
                              <<>>, snapshot_name, FALSE))

NextShareSystem ==
    \/ Setup
    \/ CreateShare
    \/ ModifyShareSystem

SpecShareSystem == Init /\ [][NextShareSystem]_vars

\* The last call was a modify_share that was given an owner, a group or
\* permissions and nothing else, and that returned.
SystemOnlyChange ==
    /\ last.op = "modify_share"
    /\ last.err = "none"
    /\ last.args.name = "None"
    /\ last.args.pool = "None"
    /\ last.args.quota = "None"
    /\ last.args.valid_users = "None"
    /\ \/ last.args.owner # "None"
       \/ last.args.group # "None"
       \/ last.args.permissions # "None"

\* C35: a modify_share that changes only the owner, the group or the
\* permissions applies chown/chmod to the mount point, then removes and
\* re-inserts the stanza of the share, validates the config and reloads Samba
\* before it returns.
C35_SystemChangeReloadsSamba ==
    SystemOnlyChange =>
        last.tr = <<"chown", "write_conf", "write_conf", "test_samba_config",
                    "reload_samba">>


\* The errors that modify_share raises for an argument it refuses.
ValidationErrors ==
    {"SmbZfsError: not a valid pool", "StateItemNotFoundError", "InvalidNameError"}

\* The last call was a modify_share that refused one of its arguments; no
\* command failed in it.
ModifyShareRefused ==
    /\ last.op = "modify_share"
    /\ last.pre.data.initialized
    /\ last.args.share_name \in DOMAIN last.pre.data.shares
    /\ last.trigger = "none"
    /\ last.err \in ValidationErrors
    /\ ~last.hit

\* C36: when modify_share raises a validation error (pool not managed,
\* unknown owner or group, malformed permissions, unresolvable valid_users
\* token), nothing has been done: no dataset moved or renamed, no quota
\* changed, no chown/chmod, and the Samba config untouched, also when the
\* call asks for a pool change or a rename.
C36_ValidationBeforeSideEffects ==
    ModifyShareRefused =>
        /\ datasets = last.pre.zfs.ds
        /\ snapshots = last.pre.zfs.sn
        /\ conf = last.pre.conf
        /\ last.tr = <<>>
        /\ last.n = 0


\* The existing share, other than the one modified, whose name the last
\* modify_share asked for.
RenameTargets ==
    IF /\ last.op = "modify_share"
       /\ last.pre.data.initialized
       /\ last.args.share_name \in DOMAIN last.pre.data.shares
       /\ last.args.name # "None"
    THEN {lower(last.args.name)} \cap (DOMAIN last.pre.data.shares \ {last.args.share_name})
    ELSE {}

Stanzas(c0, name) == SelectSeq(c0.stanzas, LAMBDA st : st.name = name)

\* C37: a modify_share whose new name is the name of another existing share
\* is rejected and leaves the record, the dataset and the stanza of that
\* share as they were; the number of share records changes only through
\* create_share, delete_share and remove.
C37_RenameNeverOverwrites ==
    /\ \A other \in RenameTargets :
           /\ last.err # "none"
           /\ other \in DOMAIN data.shares
           /\ data.shares[other] = last.pre.data.shares[other]
           /\ \A d \in {last.pre.data.shares[other].dataset.name} \cap DOMAIN last.pre.zfs.ds :
                  d \in DOMAIN datasets /\ datasets[d] = last.pre.zfs.ds[d]
           /\ Stanzas(conf, other) = Stanzas(last.pre.conf, other)
    /\ last.op \notin {"none", "create_share", "delete_share", "remove"} =>
           Cardinality(DOMAIN data.shares) = Cardinality(DOMAIN last.pre.data.shares)


\* The users of a store that have a home dataset.
UsersWithHome(store) == {u \in DOMAIN store.users : "dataset" \in DOMAIN store.users[u]}

\* C38: in every reachable state no dataset is named by two records: two
\* share records never have the same dataset.name, and the dataset.name of a
\* share record is never the home dataset of a user record.
C38_NoDatasetNamedTwice ==
    /\ \A s, t \in DOMAIN file.shares :
           s # t => file.shares[s].dataset.name # file.shares[t].dataset.name
    /\ \A s \in DOMAIN file.shares :
           \A u \in UsersWithHome(file) :
               file.shares[s].dataset.name # file.users[u].dataset.name


\* C39: in every content of the state file, a written part of setup
\* included, initialized = true implies that primary_pool names an existing
\* pool, that server_name and workgroup are set and that the groups map has
\* the record smb_users.
C39_InitializedStoreIsComplete ==
    ("initialized" \in DOMAIN file /\ file.initialized) =>
        /\ file.primary_pool \in list_pools(W)
        /\ file.server_name # "None"
        /\ file.workgroup # "None"
        /\ "smb_users" \in DOMAIN file.groups


\* The last call is a modify_setup that asks for another, existing primary
\* pool on a store that has a user record without a dataset, and no
\* operation of the call was made to fail.
PrimaryChangeWithHomelessUser ==
    /\ last.op = "modify_setup"
    /\ ~last.hit
    /\ last.pre.data.initialized
    /\ last.args.primary_pool \in list_pools(last.pre) \ {last.pre.data.primary_pool}
    /\ DOMAIN last.pre.data.users # UsersWithHome(last.pre.data)

\* C40: a change of the primary pool on a store with user records without a
\* dataset skips these users and succeeds: the store then records the new
\* primary pool, and every home dataset and every share dataset of the old
\* primary pool is recorded on the new one.
C40_PrimaryChangeSkipsHomelessUsers ==
    PrimaryChangeWithHomelessUser =>
        /\ last.err = "none"
        /\ file.primary_pool = last.args.primary_pool
        /\ \A u \in UsersWithHome(file) :
               file.users[u].dataset.pool = last.args.primary_pool
        /\ \A s \in DOMAIN file.shares :
               file.shares[s].dataset.pool # last.pre.data.primary_pool

=============================================================================
